---- MODULE Spec2Model ----
(***************************************************************************)
(* Model of the query execution core of bramble (execution2.go): the       *)
(* extraction of boundary IDs from a parent result, the merge of the       *)
(* execution results of the steps of a plan into one response tree, and    *)
(* the part of ExecutableSchema.ExecuteQuery that turns a merge failure    *)
(* into a response; the construction of the boundary query documents of a  *)
(* child step (buildBoundaryQueryDocuments); and the walk of the merged     *)
(* tree that bubbles up nulls (bubbleUpNullValuesInPlace) with the end of   *)
(* ExecuteQuery that follows it.                                            *)
(*                                                                         *)
(* JSON values (Go's interface{}) are tagged records:                      *)
(*   Str(s)   a string                 Nil      JSON null / Go nil          *)
(*   Map(f)   map[string]interface{}   List(q)  []interface{}              *)
(*   IntVal(i) a Go int (the index a `range` over a slice yields)           *)
(* A map is a function from a finite set of strings to values.             *)
(***************************************************************************)
EXTENDS Integers, Sequences, FiniteSets, TLC

VARIABLES results, pc, ids, merged, response, docCall, documents, bubbleCall, bubbled,
          executableSchema, goroutines, queryExecution, skipCall, rewritten

vars == <<results, pc, ids, merged, response, docCall, documents, bubbleCall, bubbled,
          executableSchema, goroutines, queryExecution, skipCall, rewritten>>

\* the variables of the merge, and those of the construction of documents
mergeVars == <<results, pc, ids, merged, response>>

docVars == <<docCall, documents>>

\* the variables of the walk that bubbles up nulls
bubbleVars == <<bubbleCall, bubbled>>

\* the fields of ExecutableSchema with its mutex, and the goroutines that
\* refresh the schema and execute queries
schemaVars == <<executableSchema, goroutines>>

\* the execution of a plan under the budget of requests
budgetVars == <<queryExecution>>

\* the operation handed to evaluateSkipAndInclude and the operation it returns
skipVars == <<skipCall, rewritten>>

\* the variables of the parts of the program that run apart from the
\* execution core
otherVars == <<schemaVars, budgetVars, skipVars>>

----------------------------------------------------------------------------
(* Values *)

Str(s) == [t |-> "str", s |-> s]

Nil == [t |-> "nil"]

IntVal(i) == [t |-> "int", i |-> i]

Map(f) == [t |-> "map", m |-> f]

List(q) == [t |-> "list", l |-> q]

EmptyMap == [k \in {} |-> Nil]

IsMap(v) == v.t = "map"

IsList(v) == v.t = "list"

IsStr(v) == v.t = "str"

\* ptr[k] for a Go map: the zero value (nil) when the key is missing
MapGet(f, k) == IF k \in DOMAIN f THEN f[k] ELSE Nil

\* ptr[k] = v
MapSet(f, k, v) == [x \in (DOMAIN f) \cup {k} |-> IF x = k THEN v ELSE f[x]]

\* MapCopy with a key of dst kept when src has it too
MapCopyKeepDst(dst, src) ==
    [x \in (DOMAIN dst) \cup (DOMAIN src) |-> IF x \in DOMAIN dst THEN dst[x] ELSE src[x]]

\* MapCopy with dst replaced by src
MapCopyReplace(dst, src) == src

\* for k, v := range src { ptr[k] = v }
MapCopy(dst, src) ==
    [x \in (DOMAIN dst) \cup (DOMAIN src) |-> IF x \in DOMAIN src THEN src[x] ELSE dst[x]]

\* results of the functions that return (value, error)
Ok(v) == [ok |-> TRUE, val |-> v]

Err(e) == [ok |-> FALSE, err |-> e]

----------------------------------------------------------------------------
(* nodeAlias(i): the alias "_i" of the i-th selection of a singular boundary query *)

nodeAlias(i) == "_" \o ToString(i)

----------------------------------------------------------------------------
(* valueAtJSONPath and mapAtJSONPath *)

\* valueAtJSONPath reading a missing key as null instead of failing
RECURSIVE valueAtJSONPathMissingAsNil(_, _)
valueAtJSONPathMissingAsNil(val, path) ==
    IF Len(path) = 0 THEN Ok(val)
    ELSE IF ~IsMap(val) THEN Err("valueAtJSONPath: expected value to be a map")
    ELSE IF Head(path) \notin DOMAIN val.m THEN Ok(Nil)
    ELSE valueAtJSONPathMissingAsNil(val.m[Head(path)], Tail(path))

RECURSIVE valueAtJSONPath(_, _)
valueAtJSONPath(val, path) ==
    IF Len(path) = 0 THEN Ok(val)
    ELSE IF ~IsMap(val) THEN Err("valueAtJSONPath: expected value to be a map")
    ELSE IF Head(path) \notin DOMAIN val.m THEN Err("valueAtJSONPath: invalid path")
    ELSE valueAtJSONPath(val.m[Head(path)], Tail(path))

mapAtJSONPath(value, path) ==
    LET result == valueAtJSONPath(value, path)
    IN  IF ~result.ok THEN result
        ELSE IF ~IsMap(result.val) THEN Err("mapAtJSONPath: expected value to be a map")
        ELSE Ok(result.val.m)

----------------------------------------------------------------------------
(* getBoundaryFieldResults: the entries of a child result, from `_result`   *)
(* or from the aliases _0 .. _(len(src)-1)                                  *)

RECURSIVE ResultSliceFrom(_, _)
ResultSliceFrom(slice, i) ==
    IF i > Len(slice) THEN Ok(<<>>)
    ELSE IF ~IsMap(slice[i]) THEN Err("getBoundaryFieldResults: expect value at index to be map")
    ELSE LET rest == ResultSliceFrom(slice, i + 1)
         IN  IF ~rest.ok THEN rest ELSE Ok(<<slice[i].m>> \o rest.val)

RECURSIVE AliasResultsFrom(_, _)
AliasResultsFrom(src, i) ==
    IF i >= Cardinality(DOMAIN src) THEN Ok(<<>>)
    ELSE IF nodeAlias(i) \notin DOMAIN src THEN Err("getBoundaryFieldResults: unexpected missing key")
    ELSE IF ~IsMap(src[nodeAlias(i)]) THEN Err("getBoundaryFieldResults: expect value at alias to be map")
    ELSE LET rest == AliasResultsFrom(src, i + 1)
         IN  IF ~rest.ok THEN rest ELSE Ok(<<src[nodeAlias(i)].m>> \o rest.val)

getBoundaryFieldResults(src) ==
    IF "_result" \in DOMAIN src
    THEN IF ~IsList(src["_result"])
         THEN Err("getBoundaryFieldResults: expected value to be a slice")
         ELSE ResultSliceFrom(src["_result"].l, 1)
    ELSE AliasResultsFrom(src, 0)

----------------------------------------------------------------------------
(* mergeExecutionResultsRec(src, dst, insertionPoint).  The Go function     *)
(* changes dst in place and returns an error; here it returns Ok(dst') or   *)
(* Err(e).                                                                 *)

\* MergeSrcValues with the base object replaced by the matching entry
RECURSIVE MergeSrcValuesReplace(_, _, _, _, _)
MergeSrcValuesReplace(srcValues, j, dstValue, dstID, key) ==
    IF j > Len(srcValues) THEN Ok(dstValue)
    ELSE LET srcID == valueAtJSONPath(Map(srcValues[j]), <<"_id">>)
         IN  IF ~srcID.ok THEN srcID
             ELSE IF srcID.val = dstID
                  THEN MergeSrcValuesReplace(srcValues, j + 1,
                           Map(MapSet(dstValue.m, key, Map(srcValues[j]))), dstID, key)
                  ELSE MergeSrcValuesReplace(srcValues, j + 1, dstValue, dstID, key)

\* lines 160-178: the entries of srcValues from index j on are matched against
\* the base element dstValue, whose boundary ID is dstID
RECURSIVE MergeSrcValues(_, _, _, _, _)
MergeSrcValues(srcValues, j, dstValue, dstID, key) ==
    IF j > Len(srcValues) THEN Ok(dstValue)
    ELSE LET srcID == valueAtJSONPath(Map(srcValues[j]), <<"_id">>)
         IN  IF ~srcID.ok THEN srcID
             ELSE IF srcID.val = dstID
                  THEN LET dstMap == mapAtJSONPath(dstValue, <<key>>)
                       IN  IF DOMAIN srcValues[j] = {}
                           THEN MergeSrcValues(srcValues, j + 1, dstValue, dstID, key)
                           ELSE IF ~dstMap.ok THEN dstMap
                           ELSE MergeSrcValues(srcValues, j + 1,
                                    Map(MapSet(dstValue.m, key,
                                               Map(MapCopy(dstMap.val, srcValues[j])))),
                                    dstID, key)
                  ELSE MergeSrcValues(srcValues, j + 1, dstValue, dstID, key)

\* lines 151-179: the body of the loop over the base list, for one element
MergeIntoElement(src, dstValue, key) ==
    LET dstID == valueAtJSONPath(dstValue, <<key, "_id">>)
    IN  IF ~dstID.ok THEN dstID
        ELSE LET srcValues == getBoundaryFieldResults(src)
             IN  IF ~srcValues.ok THEN srcValues
                 ELSE MergeSrcValues(srcValues.val, 1, dstValue, dstID.val, key)

RECURSIVE MergeIntoList(_, _, _, _)
MergeIntoList(src, list, i, key) ==
    IF i > Len(list) THEN Ok(<<>>)
    ELSE LET first == MergeIntoElement(src, list[i], key)
         IN  IF ~first.ok THEN first
             ELSE LET rest == MergeIntoList(src, list, i + 1, key)
                  IN  IF ~rest.ok THEN rest ELSE Ok(<<first.val>> \o rest.val)

RECURSIVE mergeExecutionResultsRec(_, _, _)
RECURSIVE MergeRecList(_, _, _, _)
MergeRecList(src, list, i, insertionPoint) ==
    IF i > Len(list) THEN Ok(<<>>)
    ELSE LET first == mergeExecutionResultsRec(src, list[i], insertionPoint)
         IN  IF ~first.ok THEN first
             ELSE LET rest == MergeRecList(src, list, i + 1, insertionPoint)
                  IN  IF ~rest.ok THEN rest ELSE Ok(<<first.val>> \o rest.val)

mergeExecutionResultsRec(src, dst, insertionPoint) ==
    IF Len(insertionPoint) = 0
    THEN \* base case for root steps
         IF IsMap(dst) THEN Ok(Map(MapCopy(dst.m, src)))
         ELSE Err("mergeExecutionResultsRec: unexpected type for top-level merge")
    ELSE IF Len(insertionPoint) = 1
    THEN \* base case for child steps
         IF IsMap(dst)
         THEN LET ptr == mapAtJSONPath(dst, <<insertionPoint[1]>>)
              IN  IF ~ptr.ok THEN ptr
                  ELSE LET data == mapAtJSONPath(Map(src), <<nodeAlias(0)>>)
                       IN  IF ~data.ok THEN data
                           ELSE Ok(Map(MapSet(dst.m, insertionPoint[1],
                                              Map(MapCopy(ptr.val, data.val)))))
         ELSE IF IsList(dst)
         THEN LET r == MergeIntoList(src, dst.l, 1, insertionPoint[1])
              IN  IF ~r.ok THEN r ELSE Ok(List(r.val))
         ELSE Err("mergeExecutionResultsRec: unexpected type for non top-level merge")
    ELSE \* recursive case
         IF IsMap(dst)
         THEN LET r == mergeExecutionResultsRec(src, MapGet(dst.m, insertionPoint[1]),
                                                Tail(insertionPoint))
              IN  IF ~r.ok THEN r ELSE Ok(Map(MapSet(dst.m, insertionPoint[1], r.val)))
         ELSE IF IsList(dst)
         THEN LET r == MergeRecList(src, dst.l, 1, insertionPoint)
              IN  IF ~r.ok THEN r ELSE Ok(List(r.val))
         ELSE Err("mergeExecutionResultsRec: unexpected type for non top-level merge")

----------------------------------------------------------------------------
(* mergeExecutionResults(results): results is a sequence of ExecutionResult *)
(* records [InsertionPoint, Data, Errors]; Data is the Go map itself.       *)

RECURSIVE MergeLoop(_, _, _)
MergeLoop(rs, i, data) ==
    IF i > Len(rs) THEN Ok(data)
    ELSE LET r == mergeExecutionResultsRec(rs[i].Data, Map(data), rs[i].InsertionPoint)
         IN  IF ~r.ok THEN r ELSE MergeLoop(rs, i + 1, r.val.m)

\* mergeExecutionResults with the loop starting after the second result
mergeExecutionResultsSkipSecond(rs) ==
    IF Len(rs) = 0 THEN Err("mergeExecutionResults: nothing to merge")
    ELSE IF Len(rs) = 1 THEN Ok(rs[1].Data)
    ELSE MergeLoop(rs, 3, rs[1].Data)

\* mergeExecutionResults without the return for a single result, the loop
\* running over all results
mergeExecutionResultsLoopAll(rs) ==
    IF Len(rs) = 0 THEN Err("mergeExecutionResults: nothing to merge")
    ELSE MergeLoop(rs, 1, rs[1].Data)

mergeExecutionResults(rs) ==
    IF Len(rs) = 0 THEN Err("mergeExecutionResults: nothing to merge")
    ELSE IF Len(rs) = 1 THEN Ok(rs[1].Data)
    ELSE MergeLoop(rs, 2, rs[1].Data)

----------------------------------------------------------------------------
(* extractBoundaryIDs(data, insertionPoint): Ok(sequence of IDs) or Err     *)

RECURSIVE extractBoundaryIDs(_, _)
RECURSIVE ExtractFromIndexes(_, _, _)
\* lines 29-35: `for innerPtr := range ptr` yields the indexes 0 .. len(ptr)-1
ExtractFromIndexes(list, i, insertionPoint) ==
    IF i > Len(list) THEN Ok(<<>>)
    ELSE LET first == extractBoundaryIDs(IntVal(i - 1), insertionPoint)
         IN  IF ~first.ok THEN first
             ELSE LET rest == ExtractFromIndexes(list, i + 1, insertionPoint)
                  IN  IF ~rest.ok THEN rest ELSE Ok(first.val \o rest.val)

RECURSIVE ExtractFromElements(_, _, _)
\* lines 50-56: `for _, innerPtr := range ptr` yields the elements
ExtractFromElements(list, i, insertionPoint) ==
    IF i > Len(list) THEN Ok(<<>>)
    ELSE LET first == extractBoundaryIDs(list[i], insertionPoint)
         IN  IF ~first.ok THEN first
             ELSE LET rest == ExtractFromElements(list, i + 1, insertionPoint)
                  IN  IF ~rest.ok THEN rest ELSE Ok(first.val \o rest.val)

extractBoundaryIDs(data, insertionPoint) ==
    IF Len(insertionPoint) = 0
    THEN IF IsMap(data)
         THEN IF "_id" \notin DOMAIN data.m
              THEN Err("extractBoundaryIDs: unexpected missing '_id' in map")
              ELSE IF ~IsStr(data.m["_id"])
              THEN Err("extractBoundaryIDs: unexpected non string '_id' in map")
              ELSE Ok(<<data.m["_id"].s>>)
         ELSE IF IsList(data)
         THEN ExtractFromIndexes(data.l, 1, insertionPoint)
         ELSE Err("extractBoundaryIDs: unexpected type")
    ELSE IF IsMap(data)
         THEN IF Len(insertionPoint) = 1
              THEN extractBoundaryIDs(MapGet(data.m, insertionPoint[1]), <<>>)
              ELSE extractBoundaryIDs(MapGet(data.m, insertionPoint[1]), Tail(insertionPoint))
         ELSE IF IsList(data)
         THEN ExtractFromElements(data.l, 1, insertionPoint)
         ELSE Err("extractBoundaryIDs: unexpected type")

----------------------------------------------------------------------------
(* Bounds *)

\* longest list of objects in a parent result and of entries in a child result
MaxLen == 2

\* largest number of root results merged in one query
MaxRoots == 3

\* the longest list of IDs and the largest batch size of a call of
\* buildBoundaryQueryDocuments
MaxIDs == 3

MaxBatchSize == 3

\* the longest list of objects in a merged tree that is walked for nulls
MaxGizmos == 2

----------------------------------------------------------------------------
(* The data the steps of a plan return.  A parent (root step) result holds  *)
(* boundary objects below the fields "gizmos" (a list of gizmos) or "gizmo" *)
(* (one gizmo); a child result holds entries in array form (`_result`) or   *)
(* in singular form (`_0`, `_1`, ...).                                      *)

IDs == {"1", "2"}

OtherID(i) == IF i = "1" THEN "2" ELSE "1"

SeqsUpTo(S, n) == UNION {[1..k -> S] : k \in 0..n}

ExecutionResult(ip, data, errors) ==
    [InsertionPoint |-> ip, Data |-> data, Errors |-> errors]

\* boundary objects of a parent result: the identity under `_id`, under `id`,
\* or under both (then with different values), next to a field of their own
BaseObject(kind, i) ==
    CASE kind = "_id"  -> Map("_id" :> Str(i) @@ "color" :> Str("c"))
      [] kind = "id"   -> Map("id" :> Str(i) @@ "color" :> Str("c"))
      [] kind = "both" -> Map("_id" :> Str(i) @@ "id" :> Str(OtherID(i)) @@ "color" :> Str("c"))
      [] OTHER         -> Map("color" :> Str("c"))

IdObjects == {BaseObject("_id", i) : i \in IDs}

BaseObjects == IdObjects \cup {BaseObject("id", "1")}

\* values that are no boundary object with an identity
BadValues == {BaseObject("none", "1"), Str("x"), Nil}

\* entries of a child result: the identity and the fields the child step selects
SrcEntry(kind, i, field) ==
    CASE kind = "_id"  -> Map("_id" :> Str(i) @@ field :> Str(field \o i))
      [] kind = "id"   -> Map("id" :> Str(i) @@ field :> Str(field \o i))
      [] kind = "both" -> Map("_id" :> Str(i) @@ "id" :> Str(OtherID(i)) @@ field :> Str(field \o i))
      [] OTHER         -> Map(field :> Str(field \o i))

IdEntries(field) == {SrcEntry("_id", i, field) : i \in IDs}

SrcEntries(field) == IdEntries(field) \cup {SrcEntry("id", "1", field)}

ArrayForm(entries) == "_result" :> List(entries)

SingularForm(entries) ==
    [k \in {nodeAlias(i - 1) : i \in 1..Len(entries)} |->
        entries[CHOOSE i \in 1..Len(entries) : nodeAlias(i - 1) = k]]

Gizmo(owner) == Map("owner" :> owner @@ "maker" :> BaseObject("_id", "1"))

\* parent results {gizmos: [gizmo, ...]}
GizmosData ==
    {"gizmos" :> List(q) : q \in SeqsUpTo({Gizmo(o) : o \in BaseObjects}, MaxLen)}
    \cup {"gizmos" :> List(<<g>>) :
            g \in {Gizmo(b) : b \in BadValues \cup {BaseObject("both", "1")}}
                  \cup {Map("maker" :> Nil), Str("x")}}

\* parent results {gizmo: {_id, owner}}, the owner one object, a list of objects or no object
GizmoData ==
    {"gizmo" :> Map("_id" :> Str("1") @@ "owner" :> o) :
        o \in BaseObjects \cup BadValues \cup {BaseObject("both", "1")}
              \cup {List(q) : q \in SeqsUpTo(IdObjects, MaxLen)}}
    \cup {"gizmo" :> BaseObject("id", "1"), "gizmo" :> Str("x"), EmptyMap}

\* parent results with lists on two levels {gizmos: [{parts: [{owner}, ...]}, ...]}
Part(o) == Map("owner" :> o)

PartsData ==
    {"gizmos" :> List(q) :
        q \in SeqsUpTo({Map("parts" :> List(ps)) :
                          ps \in {<<Part(BaseObject("_id", "1"))>>,
                                  <<Part(BaseObject("_id", "2")), Part(BaseObject("_id", "1"))>>}},
                       MaxLen) \ {<<>>}}

\* root results that share top-level keys
RootValues == {Map("p" :> Str("x")), Map("q" :> Str("y"))}

RootData ==
    {"a" :> v : v \in RootValues}
    \cup {"b" :> Map("p" :> Str("x")), "a" :> Map("q" :> Str("y")) @@ "b" :> Map("q" :> Str("y"))}

BackendError == [Message |-> "backend error", Path |-> <<"a">>]

RootResults ==
    {ExecutionResult(<<>>, d, <<>>) : d \in RootData}
    \cup {ExecutionResult(<<>>, "a" :> Nil, <<BackendError>>)}

\* child results
ChildData(field) ==
    {ArrayForm(es) : es \in SeqsUpTo(SrcEntries(field), MaxLen)}
    \cup {SingularForm(es) : es \in SeqsUpTo(SrcEntries(field), MaxLen)}

\* the result of a batch document whose aliases start at `_k`: the counter of
\* the aliases runs on from one batch to the next
BatchForm(k, entries) ==
    [a \in {nodeAlias(k + i - 1) : i \in 1..Len(entries)} |->
        entries[CHOOSE i \in 1..Len(entries) : nodeAlias(k + i - 1) = a]]

\* results of the second and of the third batch of a call with batch size 1 or 2
LaterBatchData ==
    {BatchForm(1, <<SrcEntry("_id", "1", "name")>>),
     BatchForm(1, <<SrcEntry("_id", "2", "name")>>),
     BatchForm(2, <<SrcEntry("_id", "1", "name")>>),
     BatchForm(2, <<SrcEntry("_id", "1", "name"), SrcEntry("_id", "2", "name")>>)}

BadChildData ==
    {ArrayForm(<<SrcEntry("none", "1", "name")>>), SingularForm(<<SrcEntry("none", "1", "name")>>),
     ArrayForm(<<Str("x")>>), "_0" :> Str("x"), "_result" :> Str("x"),
     "_1" :> SrcEntry("_id", "1", "name")}

IsGizmos(data) == "gizmos" \in DOMAIN data

IsGizmo(data) == "gizmo" \in DOMAIN data

IsParts(data) ==
    /\ IsGizmos(data) /\ IsList(data["gizmos"]) /\ Len(data["gizmos"].l) > 0
    /\ IsMap(data["gizmos"].l[1]) /\ "parts" \in DOMAIN data["gizmos"].l[1].m

\* the child results that a query with the parent result `data` can collect
ChildrenOf(data) ==
    IF IsParts(data)
    THEN {ExecutionResult(<<"gizmos", "parts", "owner">>, d, <<>>) :
            d \in {ArrayForm(<<SrcEntry("_id", "2", "name"), SrcEntry("_id", "1", "name")>>),
                   SingularForm(<<SrcEntry("_id", "1", "name")>>)}}
    ELSE IF IsGizmos(data)
    THEN {ExecutionResult(<<"gizmos", "owner">>, d, <<>>) :
            d \in ChildData("name") \cup BadChildData \cup LaterBatchData}
    ELSE IF IsGizmo(data)
    THEN {ExecutionResult(ip, d, <<>>) :
            ip \in {<<"gizmo">>, <<"gizmo", "owner">>},
            d \in {SingularForm(<<e>>) : e \in SrcEntries("name")}
                  \cup {ArrayForm(es) : es \in SeqsUpTo(IdEntries("name"), MaxLen)}
                  \cup BadChildData}
         \cup {ExecutionResult(<<"gizmo", "owner">>, EmptyMap, <<BackendError>>)}
    ELSE {}

\* the results of the peer steps of the child step with the result `first`: the
\* same insertion point with other fields or with the same field, or another
\* insertion point
PeersOf(data, first) ==
    IF IsParts(data) THEN {}
    ELSE IF first.Data \notin {ArrayForm(es) : es \in SeqsUpTo(IdEntries("name"), MaxLen)}
                            \cup {SingularForm(<<e>>) : e \in IdEntries("name")}
    THEN {}
    ELSE IF IsGizmos(data)
    THEN {ExecutionResult(<<"gizmos", "owner">>, ArrayForm(<<SrcEntry("_id", "1", "age"), SrcEntry("_id", "2", "age")>>), <<>>),
          ExecutionResult(<<"gizmos", "owner">>, ArrayForm(<<Map("_id" :> Str("1") @@ "name" :> Str("other"))>>), <<>>),
          ExecutionResult(<<"gizmos", "maker">>, SingularForm(<<SrcEntry("_id", "1", "name")>>), <<>>)}
    ELSE IF IsGizmo(data)
    THEN {ExecutionResult(<<"gizmo">>, SingularForm(<<SrcEntry("_id", "1", "age")>>), <<>>),
          ExecutionResult(<<"gizmo">>, SingularForm(<<Map("_id" :> Str("1") @@ "owner" :> BaseObject("_id", "2"))>>), <<>>),
          ExecutionResult(<<"gizmo", "owner">>, SingularForm(<<SrcEntry("_id", "2", "age")>>), <<>>)}
    ELSE {}

InsertionPoints ==
    {<<>>, <<"gizmos">>, <<"gizmos", "owner">>, <<"gizmos", "parts", "owner">>,
     <<"gizmo">>, <<"gizmo", "owner">>}

\* the first result of a list: a root result, or a child result on its own
FirstResults ==
    {ExecutionResult(<<>>, d, <<>>) : d \in GizmosData \cup GizmoData \cup PartsData}
    \cup RootResults
    \cup {ExecutionResult(<<"gizmos", "owner">>, d, <<>>) :
            d \in {ArrayForm(<<SrcEntry("_id", "1", "name")>>), SingularForm(<<SrcEntry("_id", "1", "name")>>)}}

\* errors of the authorization filter (perms.FilterAuthorizedFields)
AuthError == [Message |-> "user do not have permission", Path |-> <<"b">>]

\* a request: the errors of the authorization filter and the data of the
\* introspection result (resolveIntrospectionFields)
Requests ==
    {[authErrs |-> <<>>, intro |-> EmptyMap],
     [authErrs |-> <<AuthError>>, intro |-> "__schema" :> Str("s")]}

----------------------------------------------------------------------------
(* buildBoundaryQueryDocuments(ctx, schema, step, ids, parentTypeBoundaryField, *)
(* batchSize).  Documents are strings.                                      *)

\* fmt.Sprintf("%q", id) for an ID without characters that %q escapes
Unquoted(id) == id

Quote(id) == "\"" \o id \o "\""

\* strings.Join(elems, sep)
RECURSIVE Join(_, _)
Join(elems, sep) ==
    IF Len(elems) = 0 THEN ""
    ELSE IF Len(elems) = 1 THEN elems[1]
    ELSE elems[1] \o sep \o Join(Tail(elems), sep)

\* batchBy with the rest of the items after the last full batch left out
RECURSIVE batchByFullOnly(_, _)
batchByFullOnly(items, batchSize) ==
    IF batchSize < Len(items)
    THEN <<SubSeq(items, 1, batchSize)>>
             \o batchByFullOnly(SubSeq(items, batchSize + 1, Len(items)), batchSize)
    ELSE IF batchSize = Len(items) THEN <<items>> ELSE <<>>

\* lines 92-98
RECURSIVE batchBy(_, _)
batchBy(items, batchSize) ==
    IF batchSize < Len(items)
    THEN <<SubSeq(items, 1, batchSize)>>
             \o batchBy(SubSeq(items, batchSize + 1, Len(items)), batchSize)
    ELSE <<items>>

\* formatSelectionSetSingleLine(ctx, schema, step.SelectionSet) for the
\* selection set of the child step
selectionSetQL == "{ _id: id name }"

\* lines 81-85: the selections of one batch, the first of them with the alias
\* of selectionIndex
BatchSelections(batch, selectionIndex, query) ==
    [j \in 1..Len(batch) |->
        nodeAlias(selectionIndex + j - 1) \o ": " \o query \o "(id: " \o Quote(batch[j])
            \o ") " \o selectionSetQL]

\* BuildBatches with the counter of the aliases set back to 0 for every batch
RECURSIVE BuildBatchesResetIndex(_, _, _)
BuildBatchesResetIndex(batches, selectionIndex, query) ==
    IF Len(batches) = 0 THEN <<>>
    ELSE <<"{ " \o Join(BatchSelections(batches[1], 0, query), " ") \o " }">>
             \o BuildBatchesResetIndex(Tail(batches), 0, query)

\* lines 79-88: the loop over the batches, selectionIndex running on
RECURSIVE BuildBatches(_, _, _)
BuildBatches(batches, selectionIndex, query) ==
    IF Len(batches) = 0 THEN <<>>
    ELSE <<"{ " \o Join(BatchSelections(batches[1], selectionIndex, query), " ") \o " }">>
             \o BuildBatches(Tail(batches), selectionIndex + Len(batches[1]), query)

buildBoundaryQueryDocuments(idList, parentTypeBoundaryField, batchSize) ==
    IF parentTypeBoundaryField.Array
    THEN LET qids == [i \in 1..Len(idList) |-> Quote(idList[i])]
             idsQL == "[" \o Join(qids, ", ") \o "]"
         IN  <<"{ _result: " \o parentTypeBoundaryField.Query \o "(ids: " \o idsQL \o ") "
                   \o selectionSetQL \o " }">>
    ELSE BuildBatches(batchBy(idList, batchSize), 0, parentTypeBoundaryField.Query)

----------------------------------------------------------------------------
(* Go slices of path elements (ast.Path).  A slice is a view [arr, len, cap] *)
(* of a backing array of the heap; append writes into the backing array     *)
(* when the capacity allows it and allocates a larger array otherwise.      *)

PathName(alias) == [name |-> alias]

PathIndex(i) == [index |-> i]

\* a slot of a backing array beyond the length of every slice
NoElement == [unset |-> TRUE]

\* ast.Path{}
EmptyPath == [arr |-> 0, len |-> 0, cap |-> 0]

EmptyHeap == <<>>

\* the elements the slice shows
PathElements(heap, path) ==
    IF path.len = 0 THEN <<>> ELSE SubSeq(heap[path.arr], 1, path.len)

\* append(path, element): the capacity of a grown array is 1 for an empty
\* slice and the double of the old capacity otherwise
GoAppend(heap, path, element) ==
    IF path.len < path.cap
    THEN [heap |-> [heap EXCEPT ![path.arr][path.len + 1] = element],
          path |-> [path EXCEPT !.len = path.len + 1]]
    ELSE LET newcap == IF path.cap = 0 THEN 1 ELSE 2 * path.cap
             array == [i \in 1..newcap |->
                          IF i <= path.len THEN heap[path.arr][i]
                          ELSE IF i = path.len + 1 THEN element
                          ELSE NoElement]
         IN  [heap |-> Append(heap, array),
              path |-> [arr |-> Len(heap) + 1, len |-> path.len + 1, cap |-> newcap]]

----------------------------------------------------------------------------
(* Types and selections (ast.Type, ast.Field, ast.FragmentSpread,           *)
(* ast.InlineFragment)                                                      *)

\* a nil *ast.Type
NilType == [isType |-> FALSE]

NamedType(nonNull) == [isType |-> TRUE, NonNull |-> nonNull, Elem |-> NilType]

ListType(elem, nonNull) == [isType |-> TRUE, NonNull |-> nonNull, Elem |-> elem]

\* a field without selection set, and a field with one
Leaf(alias, type) ==
    [kind |-> "Field", Alias |-> alias, Type |-> type, hasSelectionSet |-> FALSE]

Composite(alias, type, selectionSet) ==
    [kind |-> "Field", Alias |-> alias, Type |-> type, hasSelectionSet |-> TRUE,
     SelectionSet |-> selectionSet]

\* ...Name, with the type condition and the selection set of the definition
FragmentSpread(typeCondition, selectionSet) ==
    [kind |-> "FragmentSpread", TypeCondition |-> typeCondition,
     SelectionSet |-> selectionSet]

\* ... on T { }
InlineFragment(typeCondition, selectionSet) ==
    [kind |-> "InlineFragment", TypeCondition |-> typeCondition,
     SelectionSet |-> selectionSet]

----------------------------------------------------------------------------
(* bubbleUpNullValuesInPlaceRec(schema, currentType, selectionSet, result,  *)
(* path).  The Go function changes result in place; here the walk returns   *)
(* the tree, the errors, the bubble signal, the failure and the heap.       *)

Walked(result, errs, bubbleUp, heap) ==
    [failed |-> FALSE, result |-> result, errs |-> errs, bubbleUp |-> bubbleUp,
     heap |-> heap]

WalkFailed(result, err, heap) ==
    [failed |-> TRUE, result |-> result, err |-> err, heap |-> heap]

\* the message of the error of a null in a non-null field
FieldFailedMessage == "TODO"

GraphqlError(message, path) == [Message |-> message, Path |-> path]

\* result[field.Alias]
FieldValue(result, alias) == IF alias \in DOMAIN result.m THEN result.m[alias] ELSE Nil

RECURSIVE bubbleUpNullValuesInPlaceRec(_, _, _, _, _)

\* lines 281-318: the loop over the selections of the map result, from the
\* selection k on; errs and bubbleUp are the named results so far
RECURSIVE WalkSelections(_, _, _, _, _, _, _, _)
WalkSelections(heap, currentType, selectionSet, k, result, path, errs, bubbleUp) ==
    IF k > Len(selectionSet) THEN Walked(result, errs, bubbleUp, heap)
    ELSE
    LET selection == selectionSet[k]
    IN  IF selection.kind = "Field"
        THEN LET value == FieldValue(result, selection.Alias)
                 appended == GoAppend(heap, path, PathName(selection.Alias))
             IN  IF selection.hasSelectionSet
                 THEN LET lower == bubbleUpNullValuesInPlaceRec(appended.heap, selection.Type,
                                       selection.SelectionSet, value, appended.path)
                          \* what the walk below did to the value, in place
                          written == IF selection.Alias \in DOMAIN result.m
                                     THEN Map(MapSet(result.m, selection.Alias, lower.result))
                                     ELSE result
                      IN  IF lower.failed THEN WalkFailed(written, lower.err, lower.heap)
                          ELSE IF lower.bubbleUp /\ selection.Type.NonNull
                          THEN WalkSelections(lower.heap, currentType, selectionSet, k + 1,
                                   written, path, errs \o lower.errs, TRUE)
                          ELSE IF lower.bubbleUp
                          THEN WalkSelections(lower.heap, currentType, selectionSet, k + 1,
                                   Map(MapSet(result.m, selection.Alias, Nil)), path,
                                   errs \o lower.errs, bubbleUp)
                          ELSE WalkSelections(lower.heap, currentType, selectionSet, k + 1,
                                   written, path, errs \o lower.errs, bubbleUp)
                 ELSE IF value = Nil /\ selection.Type.NonNull
                 THEN WalkSelections(appended.heap, currentType, selectionSet, k + 1, result,
                          path, Append(errs, GraphqlError(FieldFailedMessage, appended.path)),
                          TRUE)
                 ELSE WalkSelections(heap, currentType, selectionSet, k + 1, result, path,
                          errs, bubbleUp)
        ELSE IF selection.kind = "FragmentSpread"
        THEN LET lower == bubbleUpNullValuesInPlaceRec(heap, currentType,
                              selection.SelectionSet, result, path)
             IN  IF lower.failed THEN lower
                 ELSE WalkSelections(lower.heap, currentType, selectionSet, k + 1,
                          lower.result, path, errs \o lower.errs, lower.bubbleUp)
        ELSE WalkFailed(result, "unknown selection type", heap)

\* lines 319-333: the loop over the elements of the list result, from the
\* element i on
RECURSIVE WalkElements(_, _, _, _, _, _, _, _)
WalkElements(heap, currentType, selectionSet, i, result, path, errs, bubbleUp) ==
    IF i > Len(result.l) THEN Walked(result, errs, bubbleUp, heap)
    ELSE
    LET appended == GoAppend(heap, path, PathIndex(i - 1))
        lower == bubbleUpNullValuesInPlaceRec(appended.heap, currentType, selectionSet,
                     result.l[i], appended.path)
        written == List([result.l EXCEPT ![i] = lower.result])
    IN  IF lower.failed THEN WalkFailed(written, lower.err, lower.heap)
        ELSE IF ~lower.bubbleUp
        THEN WalkElements(lower.heap, currentType, selectionSet, i + 1, written, path,
                 errs \o lower.errs, bubbleUp)
        ELSE IF ~currentType.isType \/ ~currentType.Elem.isType
        THEN WalkFailed(written, "panic: nil pointer dereference", lower.heap)
        ELSE IF currentType.Elem.NonNull
        THEN WalkElements(lower.heap, currentType, selectionSet, i + 1, written, path,
                 errs \o lower.errs, TRUE)
        ELSE WalkElements(lower.heap, currentType, selectionSet, i + 1,
                 List([result.l EXCEPT ![i] = Nil]), path, errs \o lower.errs, bubbleUp)

bubbleUpNullValuesInPlaceRec(heap, currentType, selectionSet, result, path) ==
    IF IsMap(result)
    THEN WalkSelections(heap, currentType, selectionSet, 1, result, path, <<>>, FALSE)
    ELSE IF IsList(result)
    THEN WalkElements(heap, currentType, selectionSet, 1, result, path, <<>>, FALSE)
    ELSE WalkFailed(result, "bubbleUpNullValuesInPlaceRec: unxpected result type", heap)

\* a nil error
NoError == "nil"

ErrNullBubbledToRoot == "bubbleUpNullValuesInPlace: null bubbled up to root"

\* lines 267-276.  result is the map the caller holds, as the walk left it;
\* the paths of the errors are read from the arrays as they are at the return
bubbleUpNullValuesInPlace(selectionSet, result) ==
    LET walk == bubbleUpNullValuesInPlaceRec(EmptyHeap, NilType, selectionSet, Map(result),
                    EmptyPath)
    IN  IF walk.failed THEN [errs |-> <<>>, err |-> walk.err, result |-> walk.result.m]
        ELSE IF walk.bubbleUp
        THEN [errs |-> <<>>, err |-> ErrNullBubbledToRoot, result |-> walk.result.m]
        ELSE [errs |-> [e \in DOMAIN walk.errs |->
                           GraphqlError(walk.errs[e].Message,
                                        PathElements(walk.heap, walk.errs[e].Path))],
              err |-> NoError, result |-> walk.result.m]

----------------------------------------------------------------------------
(* State *)

NoIDs == [set |-> FALSE]

NoMerge == [set |-> FALSE]

NoResponse == [set |-> FALSE]

IsRoot(r) == r.InsertionPoint = <<>>

AllRoots(rs) == \A i \in 1..Len(rs) : rs[i] \in RootResults

NoCall == [set |-> FALSE]

NoDocuments == [set |-> FALSE]

\* no run of bubbleUpNullValuesInPlace yet
NoRuns == <<>>

NoSchema == [set |-> FALSE]

NoGoroutines == [set |-> FALSE]

NoExecution == [set |-> FALSE]

NoOperation == [set |-> FALSE]

\* the parts of the program that run apart from the execution core are idle
OthersIdle ==
    /\ executableSchema = NoSchema
    /\ goroutines = NoGoroutines
    /\ queryExecution = NoExecution
    /\ skipCall = NoCall
    /\ rewritten = NoOperation

Init ==
    /\ results \in {<<r>> : r \in FirstResults}
    /\ pc = "collect"
    /\ ids = NoIDs
    /\ merged = NoMerge
    /\ response = NoResponse
    /\ docCall = NoCall
    /\ documents = NoDocuments
    /\ bubbleCall = NoCall
    /\ bubbled = NoRuns
    /\ OthersIdle

\* the executor reads the IDs at the insertion point of a child step from the
\* data of the parent step
ExtractIDs ==
    /\ pc = "collect"
    /\ Len(results) = 1
    /\ ids = NoIDs
    /\ \E ip \in InsertionPoints :
         ids' = [set |-> TRUE, insertionPoint |-> ip,
                 result |-> extractBoundaryIDs(Map(results[1].Data), ip)]
    /\ UNCHANGED <<results, pc, merged, response>>
    /\ UNCHANGED docVars
    /\ UNCHANGED bubbleVars
    /\ UNCHANGED otherVars

\* a further root step completes
AppendRoot ==
    /\ pc = "collect"
    /\ AllRoots(results)
    /\ Len(results) < MaxRoots
    /\ \E r \in RootResults : results' = Append(results, r)
    /\ ids' = NoIDs
    /\ UNCHANGED <<pc, merged, response>>
    /\ UNCHANGED docVars
    /\ UNCHANGED bubbleVars
    /\ UNCHANGED otherVars

\* a child step of the root step completes
AppendChild ==
    /\ pc = "collect"
    /\ Len(results) = 1
    /\ IsRoot(results[1])
    /\ \E r \in ChildrenOf(results[1].Data) : results' = Append(results, r)
    /\ ids' = NoIDs
    /\ UNCHANGED <<pc, merged, response>>
    /\ UNCHANGED docVars
    /\ UNCHANGED bubbleVars
    /\ UNCHANGED otherVars

\* a peer of the child step completes
AppendPeer ==
    /\ pc = "collect"
    /\ Len(results) = 2
    /\ IsRoot(results[1])
    /\ ~IsRoot(results[2])
    /\ \E r \in PeersOf(results[1].Data, results[2]) : results' = Append(results, r)
    /\ ids' = NoIDs
    /\ UNCHANGED <<pc, merged, response>>
    /\ UNCHANGED docVars
    /\ UNCHANGED bubbleVars
    /\ UNCHANGED otherVars

\* mergeExecutionResults(results)
Merge ==
    /\ pc = "collect"
    /\ merged' = [set |-> TRUE, result |-> mergeExecutionResults(results)]
    /\ pc' = "merged"
    /\ ids' = NoIDs
    /\ UNCHANGED <<results, response>>
    /\ UNCHANGED docVars
    /\ UNCHANGED bubbleVars
    /\ UNCHANGED otherVars

\* ExecuteQuery from the collection of the errors of the results to the return
\* after the merge: the introspection result is put in front of the results of
\* the plan, and a merge failure ends the query; after a merge without failure
\* the handler goes on with ExecuteQueryBubble
ExecuteQuery ==
    /\ pc = "collect"
    /\ \E req \in Requests :
         LET Collect[i \in 0..Len(results)] ==
                 IF i = 0 THEN req.authErrs ELSE Collect[i - 1] \o results[i].Errors
             errs == Collect[Len(results)]
             all == <<ExecutionResult(<<>>, req.intro, <<>>)>> \o results
             mergedResult == mergeExecutionResults(all)
         IN  /\ merged' = [set |-> TRUE, result |-> mergedResult]
             /\ response' =
                  IF ~mergedResult.ok
                  THEN [set |-> TRUE, hasData |-> FALSE,
                        Errors |-> Append(errs, [Message |-> mergedResult.err, Path |-> <<>>])]
                  ELSE NoResponse
             /\ pc' = IF ~mergedResult.ok THEN "responded" ELSE "bubble"
    /\ ids' = NoIDs
    /\ UNCHANGED results
    /\ UNCHANGED docVars
    /\ UNCHANGED bubbleVars
    /\ UNCHANGED otherVars

Next ==
    \/ ExtractIDs
    \/ AppendRoot
    \/ AppendChild
    \/ AppendPeer
    \/ Merge
    \/ ExecuteQuery

Spec == Init /\ [][Next]_vars

----------------------------------------------------------------------------
(* The construction of the documents of one child step                      *)

\* the boundary queries of the two forms (BoundaryQuery{Query, Array})
BoundaryQueries ==
    {[Query |-> "getOwners", Array |-> TRUE], [Query |-> "getOwner", Array |-> FALSE]}

DocCalls ==
    {[set |-> TRUE, ids |-> l, parentTypeBoundaryField |-> f, batchSize |-> b] :
        l \in SeqsUpTo(IDs, MaxIDs), f \in BoundaryQueries, b \in 1..MaxBatchSize}

InitDocuments ==
    /\ docCall \in DocCalls
    /\ documents = NoDocuments
    /\ results = <<>>
    /\ pc = "documents"
    /\ ids = NoIDs
    /\ merged = NoMerge
    /\ response = NoResponse
    /\ bubbleCall = NoCall
    /\ bubbled = NoRuns
    /\ OthersIdle

BuildDocuments ==
    /\ pc = "documents"
    /\ ~documents.set
    /\ documents' = [set |-> TRUE,
                     docs |-> buildBoundaryQueryDocuments(docCall.ids,
                                  docCall.parentTypeBoundaryField, docCall.batchSize)]
    /\ UNCHANGED docCall
    /\ UNCHANGED mergeVars
    /\ UNCHANGED bubbleVars
    /\ UNCHANGED otherVars

NextDocuments == BuildDocuments

SpecDocuments == InitDocuments /\ [][NextDocuments]_vars

----------------------------------------------------------------------------
(* What the claims speak about, read off the inputs and the outputs         *)

Merged == pc = "merged"

Base == results[1].Data

Child == results[2]

HasID(o) == IsMap(o) /\ "_id" \in DOMAIN o.m

\* a child result in array form or in singular form with all its aliases
IsArrayForm(data) ==
    /\ DOMAIN data = {"_result"}
    /\ IsList(data["_result"])
    /\ \A i \in DOMAIN data["_result"].l : IsMap(data["_result"].l[i])

IsSingularForm(data) ==
    /\ DOMAIN data = {nodeAlias(i) : i \in 0..(Cardinality(DOMAIN data) - 1)}
    /\ \A k \in DOMAIN data : IsMap(data[k])

EntriesOf(data) ==
    IF IsArrayForm(data) THEN {data["_result"].l[i] : i \in DOMAIN data["_result"].l}
    ELSE {data[k] : k \in DOMAIN data}

\* the object new is the object old with the fields of the matching entries
\* copied into it, and nothing else changed
Received(old, new, matching) ==
    /\ IsMap(new)
    /\ \A e \in matching : \A k \in DOMAIN e.m : k \in DOMAIN new.m /\ new.m[k] = e.m[k]
    /\ \A k \in DOMAIN old.m :
         /\ k \in DOMAIN new.m
         /\ (\A e \in matching : k \notin DOMAIN e.m) => new.m[k] = old.m[k]
    /\ \A k \in DOMAIN new.m : k \in DOMAIN old.m \/ \E e \in matching : k \in DOMAIN e.m

\* the map new is the map old but for the value of key
SameBut(old, new, key) ==
    /\ DOMAIN new = DOMAIN old
    /\ \A k \in DOMAIN old : k # key => new[k] = old[k]

----------------------------------------------------------------------------
(* C1 *)

C1Case ==
    /\ Merged
    /\ Len(results) = 2
    /\ results[1].InsertionPoint = <<>>
    /\ Child.InsertionPoint = <<"gizmos", "owner">>
    /\ DOMAIN Base = {"gizmos"}
    /\ IsList(Base["gizmos"])
    /\ \A i \in DOMAIN Base["gizmos"].l :
         /\ IsMap(Base["gizmos"].l[i])
         /\ "owner" \in DOMAIN Base["gizmos"].l[i].m
         /\ HasID(Base["gizmos"].l[i].m["owner"])
    /\ IsArrayForm(Child.Data) \/ IsSingularForm(Child.Data)
    /\ \A e \in EntriesOf(Child.Data) : HasID(e)

\* C1: a child result merged at an insertion point that ends at a list of base
\* elements ([gizmos, owner], gizmos a list) gives every base boundary object
\* all fields of the source entries (of `_result` or of the aliases _0.._n)
\* whose `_id` equals its own `_id`, in whatever order the entries come; the
\* object keeps every field that the source does not supply, and so does the
\* rest of the tree, also when several base objects carry the same `_id`.
C1_ArrayBoundaryMergeByID ==
    C1Case =>
        /\ merged.result.ok
        /\ DOMAIN merged.result.val = {"gizmos"}
        /\ IsList(merged.result.val["gizmos"])
        /\ Len(merged.result.val["gizmos"].l) = Len(Base["gizmos"].l)
        /\ \A i \in DOMAIN Base["gizmos"].l :
             LET old == Base["gizmos"].l[i]
                 new == merged.result.val["gizmos"].l[i]
             IN  /\ IsMap(new)
                 /\ SameBut(old.m, new.m, "owner")
                 /\ Received(old.m["owner"], new.m["owner"],
                             {e \in EntriesOf(Child.Data) : e.m["_id"] = old.m["owner"].m["_id"]})

\* two base objects with the same `_id`, and the source entries in another order
C1_Witness ==
    /\ C1Case
    /\ merged.result.ok
    /\ Len(Base["gizmos"].l) = 2
    /\ Base["gizmos"].l[1].m["owner"].m["_id"] = Str("1")
    /\ Base["gizmos"].l[2].m["owner"].m["_id"] = Str("1")
    /\ Child.Data = ArrayForm(<<SrcEntry("_id", "2", "name"), SrcEntry("_id", "1", "name")>>)
    /\ merged.result.val["gizmos"].l[2].m["owner"].m["name"] = Str("name1")

----------------------------------------------------------------------------
(* C2 *)

C2Case ==
    /\ Merged
    /\ Len(results) = 2
    /\ results[1].InsertionPoint = <<>>
    /\ DOMAIN Base = {"gizmo"}
    /\ IsMap(Base["gizmo"])
    /\ IsSingularForm(Child.Data)
    /\ "_0" \in DOMAIN Child.Data
    /\ \/ Child.InsertionPoint = <<"gizmo">>
       \/ /\ Child.InsertionPoint = <<"gizmo", "owner">>
          /\ "owner" \in DOMAIN Base["gizmo"].m
          /\ IsMap(Base["gizmo"].m["owner"])

\* C2: when the base value at the insertion point is a single object and the
\* child result is in singular form, every key of the source object under `_0`
\* is copied into that base object, the other keys of the object and the rest of
\* the tree stay as they were, and there is no error.
C2_SingularMergeIntoObject ==
    C2Case =>
        /\ merged.result.ok
        /\ DOMAIN merged.result.val = {"gizmo"}
        /\ IF Child.InsertionPoint = <<"gizmo">>
           THEN Received(Base["gizmo"], merged.result.val["gizmo"], {Child.Data["_0"]})
           ELSE /\ IsMap(merged.result.val["gizmo"])
                /\ SameBut(Base["gizmo"].m, merged.result.val["gizmo"].m, "owner")
                /\ Received(Base["gizmo"].m["owner"], merged.result.val["gizmo"].m["owner"],
                            {Child.Data["_0"]})

\* the owner {_id: "2", color} gets `_id` and `name` of `_0` and keeps its color
C2_Witness ==
    /\ C2Case
    /\ Child.InsertionPoint = <<"gizmo", "owner">>
    /\ Base["gizmo"].m["owner"] = BaseObject("_id", "2")
    /\ Child.Data = SingularForm(<<SrcEntry("_id", "1", "name")>>)
    /\ merged.result.ok
    /\ merged.result.val["gizmo"].m["owner"] =
         Map("_id" :> Str("1") @@ "name" :> Str("name1") @@ "color" :> Str("c"))

----------------------------------------------------------------------------
(* C3 *)

C3Case == Merged /\ \A i \in 1..Len(results) : results[i].InsertionPoint = <<>>

LastWith(k) == CHOOSE i \in 1..Len(results) :
                  /\ k \in DOMAIN results[i].Data
                  /\ \A j \in (i + 1)..Len(results) : k \notin DOMAIN results[j].Data

\* C3: the first result is the base tree and every later result with an empty
\* insertion point has its top-level keys copied into it: the merged tree has
\* the union of the top-level keys of all root results and, for a key present in
\* several results, the whole value of the last of them.
C3_RootMergeLastWriterWins ==
    C3Case =>
        /\ merged.result.ok
        /\ DOMAIN merged.result.val = UNION {DOMAIN results[i].Data : i \in 1..Len(results)}
        /\ \A k \in DOMAIN merged.result.val :
             merged.result.val[k] = results[LastWith(k)].Data[k]

\* key "a" comes from the first and from the third result, with other values
C3_Witness ==
    /\ C3Case
    /\ Len(results) = 3
    /\ results[1].Data = "a" :> Map("p" :> Str("x"))
    /\ results[2].Data = "b" :> Map("p" :> Str("x"))
    /\ results[3].Data = "a" :> Map("q" :> Str("y")) @@ "b" :> Map("q" :> Str("y"))
    /\ merged.result.ok
    /\ merged.result.val = results[3].Data

----------------------------------------------------------------------------
(* C4 *)

\* C4: for a list of exactly one result, whatever its insertion point,
\* mergeExecutionResults returns the data of that result unchanged and no error.
C4_SingleResultIsIdentity ==
    (Merged /\ Len(results) = 1) => merged.result = Ok(results[1].Data)

\* a single result with the insertion point of a child step
C4_Witness ==
    /\ Merged
    /\ Len(results) = 1
    /\ results[1].InsertionPoint = <<"gizmos", "owner">>
    /\ merged.result.ok

----------------------------------------------------------------------------
(* C5 *)

SameOutcome(a, b) == a.ok = b.ok /\ (a.ok => a.val = b.val)

WellFormedChild(r) == IsArrayForm(r.Data) \/ IsSingularForm(r.Data)

WrittenKeys(r) == UNION {DOMAIN e.m : e \in EntriesOf(r.Data)}

IsStrictPrefix(p, q) == Len(p) < Len(q) /\ \A i \in 1..Len(p) : p[i] = q[i]

\* the child results c1 and c2 write disjoint parts of the tree: at the same
\* insertion point they share no field but the `_id` of the object they both
\* complete; at different insertion points neither writes a field on the path
\* of the other
PeersDisjoint(c1, c2) ==
    /\ WellFormedChild(c1)
    /\ WellFormedChild(c2)
    /\ IF c1.InsertionPoint = c2.InsertionPoint
       THEN /\ \A e1 \in EntriesOf(c1.Data), e2 \in EntriesOf(c2.Data) :
                 (DOMAIN e1.m) \cap (DOMAIN e2.m) \subseteq {"_id"}
            /\ ("_0" \in DOMAIN c1.Data /\ "_0" \in DOMAIN c2.Data
                /\ HasID(c1.Data["_0"]) /\ HasID(c2.Data["_0"]))
                 => c1.Data["_0"].m["_id"] = c2.Data["_0"].m["_id"]
       ELSE /\ IsStrictPrefix(c1.InsertionPoint, c2.InsertionPoint)
                 => c2.InsertionPoint[Len(c1.InsertionPoint) + 1] \notin WrittenKeys(c1)
            /\ IsStrictPrefix(c2.InsertionPoint, c1.InsertionPoint)
                 => c1.InsertionPoint[Len(c2.InsertionPoint) + 1] \notin WrittenKeys(c2)

C5RootCase ==
    /\ Merged
    /\ Len(results) = 2
    /\ results[1].InsertionPoint = <<>>
    /\ results[2].InsertionPoint = <<>>
    /\ (DOMAIN results[1].Data) \cap (DOMAIN results[2].Data) = {}

C5PeerCase ==
    /\ Merged
    /\ Len(results) = 3
    /\ results[1].InsertionPoint = <<>>
    /\ results[2].InsertionPoint # <<>>
    /\ results[3].InsertionPoint # <<>>
    /\ PeersDisjoint(results[2], results[3])

\* C5: the merged tree does not depend on the order of peer results that write
\* disjoint parts of the tree: two root results with disjoint top-level keys
\* merge to the same tree in both orders, and so do two child results of peer
\* steps after the same base result.
C5_PeerOrderInsensitive ==
    /\ C5RootCase =>
         SameOutcome(merged.result, mergeExecutionResults(<<results[2], results[1]>>))
    /\ C5PeerCase =>
         SameOutcome(merged.result, mergeExecutionResults(<<results[1], results[3], results[2]>>))

\* two children complete the same owners with the fields `name` and `age`
C5_Witness ==
    /\ C5PeerCase
    /\ merged.result.ok
    /\ results[2].InsertionPoint = <<"gizmos", "owner">>
    /\ results[3].InsertionPoint = <<"gizmos", "owner">>
    /\ Len(Base["gizmos"].l) = 2
    /\ \A i \in 1..2 : {"name", "age"} \subseteq DOMAIN merged.result.val["gizmos"].l[i].m["owner"].m

----------------------------------------------------------------------------
(* C6 *)

\* the boundary identity of an object: `_id`, or `id` when there is no `_id`
HasIdentity(o) == IsMap(o) /\ ("_id" \in DOMAIN o.m \/ "id" \in DOMAIN o.m)

Identity(o) == IF "_id" \in DOMAIN o.m THEN o.m["_id"] ELSE o.m["id"]

C6Case ==
    /\ Merged
    /\ Len(results) = 2
    /\ results[1].InsertionPoint = <<>>
    /\ Child.InsertionPoint = <<"gizmos", "owner">>
    /\ DOMAIN Base = {"gizmos"}
    /\ IsList(Base["gizmos"])
    /\ \A i \in DOMAIN Base["gizmos"].l :
         /\ IsMap(Base["gizmos"].l[i])
         /\ "owner" \in DOMAIN Base["gizmos"].l[i].m
         /\ HasIdentity(Base["gizmos"].l[i].m["owner"])
    /\ IsArrayForm(Child.Data) \/ IsSingularForm(Child.Data)
    /\ \A e \in EntriesOf(Child.Data) : HasIdentity(e)

\* C6: `_id` and `id` are both accepted as the boundary identity of base and of
\* source objects (`_id` first): a merge in which some objects carry only `id`
\* succeeds and gives every base object the fields of the source entries with
\* the same identity.
C6_MergeAcceptsIdAndUnderscoreId ==
    C6Case =>
        /\ merged.result.ok
        /\ \A i \in DOMAIN Base["gizmos"].l :
             LET old == Base["gizmos"].l[i].m["owner"]
                 new == merged.result.val["gizmos"].l[i].m["owner"]
             IN  \A e \in EntriesOf(Child.Data) :
                     Identity(e) = Identity(old) =>
                         \A k \in (DOMAIN e.m) \ {"_id", "id"} :
                             k \in DOMAIN new.m /\ new.m[k] = e.m[k]

----------------------------------------------------------------------------
(* C7 *)

C7Case ==
    /\ Merged
    /\ Len(results) = 2
    /\ results[1].InsertionPoint = <<>>
    /\ Child.InsertionPoint = <<"gizmo", "owner">>
    /\ DOMAIN Base = {"gizmo"}
    /\ IsMap(Base["gizmo"])
    /\ "owner" \in DOMAIN Base["gizmo"].m
    /\ IsList(Base["gizmo"].m["owner"])
    /\ \A i \in DOMAIN Base["gizmo"].m["owner"].l : HasID(Base["gizmo"].m["owner"].l[i])
    /\ IsArrayForm(Child.Data)
    /\ \A e \in EntriesOf(Child.Data) : HasID(e)

\* C7: when the last field of the insertion point holds a list of boundary
\* objects inside one parent object ([gizmo, owner], owner a list), every
\* element of the list gets the fields of the `_result` entry with its boundary
\* ID, the list keeps its order, and there is no error.
C7_ListFieldInsideObject ==
    C7Case =>
        /\ merged.result.ok
        /\ IsMap(merged.result.val["gizmo"])
        /\ IsList(merged.result.val["gizmo"].m["owner"])
        /\ Len(merged.result.val["gizmo"].m["owner"].l) = Len(Base["gizmo"].m["owner"].l)
        /\ \A i \in DOMAIN Base["gizmo"].m["owner"].l :
             LET old == Base["gizmo"].m["owner"].l[i]
             IN  Received(old, merged.result.val["gizmo"].m["owner"].l[i],
                          {e \in EntriesOf(Child.Data) : e.m["_id"] = old.m["_id"]})

----------------------------------------------------------------------------
(* C8 *)

C8Case ==
    /\ Merged
    /\ Len(results) = 2
    /\ results[1].InsertionPoint = <<>>
    /\ Child.InsertionPoint = <<"gizmo">>
    /\ DOMAIN Base = {"gizmo"}
    /\ HasID(Base["gizmo"])
    /\ IsArrayForm(Child.Data)
    /\ \A e \in EntriesOf(Child.Data) : HasID(e)

\* C8: a child result in array form whose insertion point ends at a single base
\* object ([gizmo], gizmo one object) is merged without error: the fields of the
\* `_result` entry with the boundary ID of the base object are copied into it.
C8_ArrayFormIntoSingleObject ==
    C8Case =>
        /\ merged.result.ok
        /\ Received(Base["gizmo"], merged.result.val["gizmo"],
                    {e \in EntriesOf(Child.Data) : e.m["_id"] = Base["gizmo"].m["_id"]})

----------------------------------------------------------------------------
(* C9 *)

\* Walking the insertion point path from the value v, lists entered element by
\* element: a field of the path is missing, a value on the path or at its end
\* is not a map, or an object that is matched by ID (an element of a list, or
\* the value of the last field in an element of a list) has no `_id`.
\* inList: the object holding the next field is an element of a list.
RECURSIVE PathFails(_, _, _)
PathFails(v, path, inList) ==
    IF IsList(v) THEN \E i \in DOMAIN v.l : PathFails(v.l[i], path, TRUE)
    ELSE IF ~IsMap(v) THEN TRUE
    ELSE IF path = <<>> THEN inList /\ "_id" \notin DOMAIN v.m
    ELSE IF Head(path) \notin DOMAIN v.m THEN TRUE
    ELSE PathFails(v.m[Head(path)], Tail(path), inList /\ Len(path) = 1)

\* some object at the end of the path is matched by ID
RECURSIVE HasMatched(_, _, _)
HasMatched(v, path, inList) ==
    IF IsList(v) THEN \E i \in DOMAIN v.l : HasMatched(v.l[i], path, TRUE)
    ELSE IF ~IsMap(v) THEN FALSE
    ELSE IF path = <<>> THEN inList
    ELSE IF Head(path) \notin DOMAIN v.m THEN FALSE
    ELSE HasMatched(v.m[Head(path)], Tail(path), inList /\ Len(path) = 1)

\* the child result r cannot be merged into the tree base
MergeFailureCase(base, r) ==
    \/ PathFails(Map(base), r.InsertionPoint, FALSE)
    \/ /\ HasMatched(Map(base), r.InsertionPoint, FALSE)
       /\ WellFormedChild(r)
       /\ \E e \in EntriesOf(r.Data) : ~HasID(e)

\* the results handed to the merge are one root result and one child result
\* that cannot be merged into it, or a child result alone (ExecuteQuery merges
\* it into the introspection result, where its path is missing)
C9Case ==
    \/ /\ Len(results) = 2
       /\ IsRoot(results[1])
       /\ ~IsRoot(Child)
       /\ MergeFailureCase(Base, Child)
    \/ /\ pc = "responded"
       /\ Len(results) = 1
       /\ ~IsRoot(results[1])
       /\ \A req \in Requests : MergeFailureCase(req.intro, results[1])

\* the errors of the results, in the order of the results
RECURSIVE ResultErrors(_)
ResultErrors(rs) ==
    IF rs = <<>> THEN <<>> ELSE rs[1].Errors \o ResultErrors(Tail(rs))

MergeFailed == merged.set /\ ~merged.result.ok

MergeError == [Message |-> merged.result.err, Path |-> <<>>]

----------------------------------------------------------------------------
(* C10 *)

\* every value found at the end of the path, lists entered element by element,
\* is a boundary object with an identity
RECURSIVE AllBoundaryObjects(_, _)
AllBoundaryObjects(v, path) ==
    IF IsList(v) THEN \A i \in DOMAIN v.l : AllBoundaryObjects(v.l[i], path)
    ELSE IF ~IsMap(v) THEN FALSE
    ELSE IF path = <<>> THEN HasIdentity(v) /\ IsStr(Identity(v))
    ELSE IF Head(path) \notin DOMAIN v.m THEN FALSE
    ELSE AllBoundaryObjects(v.m[Head(path)], Tail(path))

\* the identities of these objects, depth first and in the order of the lists
RECURSIVE ExpectedIDs(_, _)
ExpectedIDs(v, path) ==
    IF IsList(v)
    THEN LET Upto[n \in 0..Len(v.l)] ==
                 IF n = 0 THEN <<>> ELSE Upto[n - 1] \o ExpectedIDs(v.l[n], path)
         IN  Upto[Len(v.l)]
    ELSE IF path = <<>> THEN <<Identity(v).s>>
    ELSE ExpectedIDs(v.m[Head(path)], Tail(path))

C10Case ==
    /\ ids.set
    /\ AllBoundaryObjects(Map(Base), ids.insertionPoint)

\* C10: extractBoundaryIDs returns exactly one ID for every boundary object
\* found at the insertion point, depth first and in the order of the lists of
\* the parent data, entering every element of each list met on the path, and
\* keeping duplicates.
C10_OneIDPerBoundaryObject ==
    C10Case =>
        /\ ids.result.ok
        /\ ids.result.val = ExpectedIDs(Map(Base), ids.insertionPoint)

----------------------------------------------------------------------------
(* C11 *)

OnlyID(o) == IsMap(o) /\ "id" \in DOMAIN o.m /\ "_id" \notin DOMAIN o.m

OnlyUnderscoreID(o) == IsMap(o) /\ "_id" \in DOMAIN o.m /\ "id" \notin DOMAIN o.m

\* the owners of a list of gizmos are boundary objects, some with only `id`
\* and some with only `_id`
C11Case ==
    /\ ids.set
    /\ ids.insertionPoint = <<"gizmos", "owner">>
    /\ DOMAIN Base = {"gizmos"}
    /\ IsList(Base["gizmos"])
    /\ AllBoundaryObjects(Map(Base), ids.insertionPoint)
    /\ \E i \in DOMAIN Base["gizmos"].l : OnlyID(Base["gizmos"].l[i].m["owner"])
    /\ \E i \in DOMAIN Base["gizmos"].l : OnlyUnderscoreID(Base["gizmos"].l[i].m["owner"])

\* C11: extractBoundaryIDs reads the identity of a boundary object from `_id`
\* and otherwise from `id`: on parent data in which some objects at the
\* insertion point carry only `id` and others only `_id` it returns no error
\* and the identities of all of them in order.
C11_ExtractReadsIdAndUnderscoreId ==
    C11Case =>
        /\ ids.result.ok
        /\ Len(ids.result.val) = Len(Base["gizmos"].l)
        /\ \A i \in DOMAIN Base["gizmos"].l :
             ids.result.val[i] = Identity(Base["gizmos"].l[i].m["owner"]).s

----------------------------------------------------------------------------
(* The walk of the merged tree for nulls, and the end of ExecuteQuery        *)

\* { gizmos { id color owner { id name } } } on the schema
\*   type Gizmo { id: ID!  color: String[!]  owner: Owner[!] }
\*   type Owner { id: ID!  name: String! }
\*   type Query { gizmos: [Gizmo[!]][!] }
GizmosQuery(listNonNull, elemNonNull, colorNonNull, ownerNonNull) ==
    <<Composite("gizmos", ListType(NamedType(elemNonNull), listNonNull),
        <<Leaf("id", NamedType(TRUE)),
          Leaf("color", NamedType(colorNonNull)),
          Composite("owner", NamedType(ownerNonNull),
              <<Leaf("id", NamedType(TRUE)), Leaf("name", NamedType(TRUE))>>)>>)>>

GizmosQueries ==
    {GizmosQuery(l, e, c, o) : l \in BOOLEAN, e \in BOOLEAN, c \in BOOLEAN, o \in BOOLEAN}

Owner(id, name) == Map("id" :> id @@ "name" :> name)

ColoredGizmo(color, owner) == Map("id" :> Str("GIZMO") @@ "color" :> color @@ "owner" :> owner)

ColoredGizmos ==
    {ColoredGizmo(Str("RED"), Owner(Str("1"), Str("Ann"))),
     ColoredGizmo(Nil, Owner(Str("1"), Str("Ann"))),
     ColoredGizmo(Str("RED"), Nil),
     ColoredGizmo(Str("RED"), Owner(Str("1"), Nil)),
     ColoredGizmo(Str("RED"), Owner(Nil, Nil)),
     ColoredGizmo(Nil, Owner(Str("1"), Nil))}

\* merged trees {gizmos: [...]} and {gizmos: null}
GizmosTrees ==
    {"gizmos" :> List(q) : q \in SeqsUpTo(ColoredGizmos, MaxGizmos)}
    \cup {"gizmos" :> Nil}

\* { critters { id <fragments> } } on the schema
\*   interface Critter { id: ID! }
\*   type Gizmo implements Critter { id: ID!  color: String! }
\*   type Gremlin implements Critter { id: ID!  name: String! }
\*   type Query { critters: [Critter[!]]! }
CrittersQuery(elemNonNull, fragments) ==
    <<Composite("critters", ListType(NamedType(elemNonNull), TRUE),
        <<Leaf("id", NamedType(TRUE))>> \o fragments)>>

GizmoSelections == <<Leaf("color", NamedType(TRUE)), Leaf("__typename", NamedType(TRUE))>>

GremlinSelections == <<Leaf("name", NamedType(TRUE)), Leaf("__typename", NamedType(TRUE))>>

\* the fragments of the queries: spreads of fragments on the two object types,
\* inline fragments on them, and the spread of a fragment on the interface
\* that holds the inline fragments
CritterFragments ==
    {<<FragmentSpread("Gizmo", GizmoSelections), FragmentSpread("Gremlin", GremlinSelections)>>,
     <<FragmentSpread("Gizmo", GizmoSelections)>>,
     <<InlineFragment("Gizmo", GizmoSelections), InlineFragment("Gremlin", GremlinSelections)>>,
     <<FragmentSpread("Critter",
          <<InlineFragment("Gizmo", GizmoSelections),
            InlineFragment("Gremlin", GremlinSelections)>>)>>}

\* { gizmos { color ...GizmoID } } and { gizmos { ...GizmoID color } } with
\* fragment GizmoID on Gizmo { id __typename }, gizmos: [Gizmo[!]]!
SpreadQuery(elemNonNull, spreadFirst) ==
    LET spread == <<FragmentSpread("Gizmo",
                       <<Leaf("id", NamedType(TRUE)), Leaf("__typename", NamedType(TRUE))>>)>>
        color == <<Leaf("color", NamedType(TRUE))>>
    IN  <<Composite("critters", ListType(NamedType(elemNonNull), TRUE),
             IF spreadFirst THEN spread \o color ELSE color \o spread)>>

CrittersQueries ==
    {CrittersQuery(e, f) : e \in BOOLEAN, f \in CritterFragments}
    \cup {SpreadQuery(e, first) : e \in BOOLEAN, first \in BOOLEAN}

Critter(typename, field, value) ==
    Map("id" :> Str("C") @@ field :> value @@ "__typename" :> Str(typename))

Critters ==
    {Critter("Gizmo", "color", Str("RED")), Critter("Gizmo", "color", Nil),
     Critter("Gremlin", "name", Str("Spikey"))}

CrittersTrees == {"critters" :> List(q) : q \in SeqsUpTo(Critters, MaxGizmos)}

\* the interfaces and the object types that implement them
Implements(typename, interface) ==
    interface = "Critter" /\ typename \in {"Gizmo", "Gremlin"}

\* an operation and the tree merged for it, with the errors ExecuteQuery has
\* collected before the merge
BubbleCalls ==
    {[set |-> TRUE, selectionSet |-> q, result |-> t, errs |-> e] :
        q \in GizmosQueries, t \in GizmosTrees, e \in {<<>>, <<AuthError>>}}
    \cup {[set |-> TRUE, selectionSet |-> q, result |-> t, errs |-> e] :
            q \in CrittersQueries, t \in CrittersTrees, e \in {<<>>}}

InitBubble ==
    /\ bubbleCall \in BubbleCalls
    /\ bubbled = NoRuns
    /\ merged = [set |-> TRUE, result |-> Ok(bubbleCall.result)]
    /\ pc = "bubble"
    /\ results = <<>>
    /\ ids = NoIDs
    /\ response = NoResponse
    /\ docCall = NoCall
    /\ documents = NoDocuments
    /\ OthersIdle

\* bubbleUpNullValuesInPlace(schema, selectionSet, result) on the merged tree
Bubble ==
    /\ pc = "bubble"
    /\ bubbled = NoRuns
    /\ bubbled' = <<bubbleUpNullValuesInPlace(bubbleCall.selectionSet, merged.result.val)>>
    /\ UNCHANGED bubbleCall
    /\ UNCHANGED mergeVars
    /\ UNCHANGED docVars
    /\ UNCHANGED otherVars

\* a second run on the tree the first run has left
BubbleAgain ==
    /\ pc = "bubble"
    /\ Len(bubbled) = 1
    /\ bubbled[1].err = NoError
    /\ bubbled' = Append(bubbled,
                         bubbleUpNullValuesInPlace(bubbleCall.selectionSet, bubbled[1].result))
    /\ UNCHANGED bubbleCall
    /\ UNCHANGED mergeVars
    /\ UNCHANGED docVars
    /\ UNCHANGED otherVars

\* the sentinel ExecuteQuery compares the failure of the walk with
errNullBubbledToRoot == ErrNullBubbledToRoot

\* the body of the response for the merged tree, null for no tree
formatResponseBody(mergedResult) == mergedResult

\* ExecuteQuery from the walk for nulls to the return (lines 1593-1622)
ExecuteQueryBubble ==
    /\ pc = "bubble"
    /\ bubbleCall.set
    /\ bubbled = NoRuns
    /\ LET run == bubbleUpNullValuesInPlace(bubbleCall.selectionSet, merged.result.val)
           errs == bubbleCall.errs
       IN  response' =
             IF run.err = errNullBubbledToRoot
             THEN [set |-> TRUE, hasData |-> TRUE, Data |-> formatResponseBody(Nil),
                   Errors |-> errs]
             ELSE IF run.err # NoError
             THEN [set |-> TRUE, hasData |-> FALSE,
                   Errors |-> Append(errs, [Message |-> run.err, Path |-> <<>>])]
             ELSE [set |-> TRUE, hasData |-> TRUE,
                   Data |-> formatResponseBody(Map(run.result)), Errors |-> errs]
    /\ pc' = "responded"
    /\ UNCHANGED <<results, ids, merged>>
    /\ UNCHANGED bubbleVars
    /\ UNCHANGED docVars
    /\ UNCHANGED otherVars

NextBubble ==
    \/ Bubble
    \/ BubbleAgain
    \/ ExecuteQueryBubble

SpecBubble == InitBubble /\ [][NextBubble]_vars

----------------------------------------------------------------------------
(* ExecutableSchema under concurrent refreshes and queries.  One goroutine  *)
(* refreshes (UpdateServiceList, UpdateSchema), the others each execute one *)
(* query (ExecuteQuery up to the execution of the plan).  A value of the    *)
(* schema is the number of the refresh that built it; a step is one read or *)
(* write of a field of ExecutableSchema or one operation of its mutex.      *)

\* the refreshes of one behaviour
MaxRefreshes == 2

Queries == {"q1", "q2"}

\* the field has not been read by the query
NotRead == -1

\* sync.RWMutex: a writer that calls Lock first announces itself, which keeps
\* new readers out, and holds the lock once the readers have left
Unlocked == [writer |-> "none", readers |-> 0]

\* the ExecutableSchema after newExecutableSchema and a first UpdateSchema
NewExecutableSchema ==
    [set |-> TRUE, MergedSchema |-> 0, Locations |-> 0, IsBoundary |-> 0,
     BoundaryQueries |-> 0, Services |-> 0, mutex |-> Unlocked]

Refresher(at, forceRebuild, built, refreshes) ==
    [pc |-> at, forceRebuild |-> forceRebuild, built |-> built, refreshes |-> refreshes]

NothingSeen ==
    [MergedSchema |-> NotRead, Schema |-> NotRead, Locations |-> NotRead,
     IsBoundary |-> NotRead, Services |-> NotRead, ExecSchema |-> NotRead,
     BoundaryQueries |-> NotRead]

InitSchema ==
    /\ executableSchema = NewExecutableSchema
    /\ goroutines = [set |-> TRUE,
                     refresher |-> Refresher("idle", FALSE, 0, 0),
                     query |-> [q \in Queries |-> [pc |-> "start", seen |-> NothingSeen]]]
    /\ pc = "serve"
    /\ results = <<>>
    /\ ids = NoIDs
    /\ merged = NoMerge
    /\ response = NoResponse
    /\ docCall = NoCall
    /\ documents = NoDocuments
    /\ bubbleCall = NoCall
    /\ bubbled = NoRuns
    /\ queryExecution = NoExecution
    /\ skipCall = NoCall
    /\ rewritten = NoOperation

refresher == goroutines.refresher

RefresherAt(at) == pc = "serve" /\ refresher.pc = at

SchemaFrame ==
    /\ UNCHANGED mergeVars
    /\ UNCHANGED docVars
    /\ UNCHANGED bubbleVars
    /\ UNCHANGED budgetVars
    /\ UNCHANGED skipVars

\* UpdateServiceList, lines 1416-1424: s.Services = newServices, then
\* UpdateSchema(true)
UpdateServiceList ==
    /\ RefresherAt("idle")
    /\ refresher.refreshes < MaxRefreshes
    /\ executableSchema' = [executableSchema EXCEPT !.Services = @ + 1]
    /\ goroutines' = [goroutines EXCEPT !.refresher.pc = "update",
                                        !.refresher.forceRebuild = TRUE]
    /\ SchemaFrame

\* the periodic call UpdateSchema(false)
UpdateSchemaCall ==
    /\ RefresherAt("idle")
    /\ refresher.refreshes < MaxRefreshes
    /\ goroutines' = [goroutines EXCEPT !.refresher.pc = "update",
                                        !.refresher.forceRebuild = FALSE]
    /\ UNCHANGED executableSchema
    /\ SchemaFrame

\* UpdateSchema, lines 1441-1475: the services are updated and, when one has
\* changed or the rebuild is forced, the schema and the three maps are built
UpdateSchemaBuild ==
    /\ RefresherAt("update")
    /\ \E updated \in BOOLEAN, mergeFails \in BOOLEAN :
         IF (updated \/ refresher.forceRebuild) /\ ~mergeFails
         THEN goroutines' = [goroutines EXCEPT !.refresher.pc = "lock",
                                               !.refresher.built = refresher.refreshes + 1]
         ELSE goroutines' = [goroutines EXCEPT !.refresher.pc = "idle",
                                               !.refresher.refreshes = @ + 1]
    /\ UNCHANGED executableSchema
    /\ SchemaFrame

\* s.mutex.Lock(), line 1477: the writer announces itself
Lock ==
    /\ RefresherAt("lock")
    /\ executableSchema.mutex.writer = "none"
    /\ executableSchema' = [executableSchema EXCEPT !.mutex.writer = "pending"]
    /\ goroutines' = [goroutines EXCEPT !.refresher.pc = "locking"]
    /\ SchemaFrame

\* Lock returning with readers still inside
LockedWithReaders ==
    /\ RefresherAt("locking")
    /\ executableSchema' = [executableSchema EXCEPT !.mutex.writer = "held"]
    /\ goroutines' = [goroutines EXCEPT !.refresher.pc = "Locations"]
    /\ SchemaFrame

\* s.mutex.Lock() returns when the readers have left
Locked ==
    /\ RefresherAt("locking")
    /\ executableSchema.mutex.readers = 0
    /\ executableSchema' = [executableSchema EXCEPT !.mutex.writer = "held"]
    /\ goroutines' = [goroutines EXCEPT !.refresher.pc = "Locations"]
    /\ SchemaFrame

\* lines 1478-1481: the four assignments
WriteLocations ==
    /\ RefresherAt("Locations")
    /\ executableSchema' = [executableSchema EXCEPT !.Locations = refresher.built]
    /\ goroutines' = [goroutines EXCEPT !.refresher.pc = "IsBoundary"]
    /\ SchemaFrame

WriteIsBoundary ==
    /\ RefresherAt("IsBoundary")
    /\ executableSchema' = [executableSchema EXCEPT !.IsBoundary = refresher.built]
    /\ goroutines' = [goroutines EXCEPT !.refresher.pc = "MergedSchema"]
    /\ SchemaFrame

WriteMergedSchema ==
    /\ RefresherAt("MergedSchema")
    /\ executableSchema' = [executableSchema EXCEPT !.MergedSchema = refresher.built]
    /\ goroutines' = [goroutines EXCEPT !.refresher.pc = "BoundaryQueries"]
    /\ SchemaFrame

WriteBoundaryQueries ==
    /\ RefresherAt("BoundaryQueries")
    /\ executableSchema' = [executableSchema EXCEPT !.BoundaryQueries = refresher.built]
    /\ goroutines' = [goroutines EXCEPT !.refresher.pc = "unlock"]
    /\ SchemaFrame

\* s.mutex.Unlock(), line 1482, and the return
Unlock ==
    /\ RefresherAt("unlock")
    /\ executableSchema' = [executableSchema EXCEPT !.mutex.writer = "none"]
    /\ goroutines' = [goroutines EXCEPT !.refresher.pc = "idle",
                                        !.refresher.refreshes = @ + 1]
    /\ SchemaFrame

QueryAt(q, at) == pc = "serve" /\ goroutines.query[q].pc = at

\* s.mutex.RLock(), line 1499 (the RUnlock is deferred)
RLock ==
    \E q \in Queries :
        /\ QueryAt(q, "start")
        /\ executableSchema.mutex.writer = "none"
        /\ executableSchema' = [executableSchema EXCEPT !.mutex.readers = @ + 1]
        /\ goroutines' = [goroutines EXCEPT !.query[q].pc = "filter"]
        /\ SchemaFrame

\* the query q at `at` reads the field of ExecutableSchema and goes on at `next`
ReadField(q, at, field, as, next) ==
    /\ QueryAt(q, at)
    /\ goroutines' = [goroutines EXCEPT !.query[q].pc = next,
                                        !.query[q].seen[as] = executableSchema[field]]
    /\ UNCHANGED executableSchema
    /\ SchemaFrame

\* lines 1520-1523: filteredSchema := s.MergedSchema
ReadMergedSchema ==
    \E q \in Queries : ReadField(q, "filter", "MergedSchema", "MergedSchema", "planSchema")

\* lines 1525-1531: the fields of the PlanningContext, in the order written
ReadPlanSchema ==
    \E q \in Queries : ReadField(q, "planSchema", "MergedSchema", "Schema", "planLocations")

ReadLocations ==
    \E q \in Queries : ReadField(q, "planLocations", "Locations", "Locations", "planIsBoundary")

ReadIsBoundary ==
    \E q \in Queries : ReadField(q, "planIsBoundary", "IsBoundary", "IsBoundary", "planServices")

ReadServices ==
    \E q \in Queries : ReadField(q, "planServices", "Services", "Services", "plan")

\* Plan, lines 1525-1535: a plan, or the error response
Plan ==
    \E q \in Queries :
        /\ QueryAt(q, "plan")
        /\ \E planned \in BOOLEAN :
             goroutines' = [goroutines EXCEPT
                               !.query[q].pc = IF planned THEN "execSchema" ELSE "return"]
        /\ UNCHANGED executableSchema
        /\ SchemaFrame

\* line 1540: newQueryExecution(s.GraphqlClient, s.Schema(), s.BoundaryQueries, ...)
ReadExecSchema ==
    \E q \in Queries : ReadField(q, "execSchema", "MergedSchema", "ExecSchema", "execBoundaryQueries")

ReadBoundaryQueries ==
    \E q \in Queries : ReadField(q, "execBoundaryQueries", "BoundaryQueries", "BoundaryQueries", "return")

\* the return of ExecuteQuery, with the deferred s.mutex.RUnlock()
Return ==
    \E q \in Queries :
        /\ QueryAt(q, "return")
        /\ executableSchema' = [executableSchema EXCEPT !.mutex.readers = @ - 1]
        /\ goroutines' = [goroutines EXCEPT !.query[q].pc = "returned"]
        /\ SchemaFrame

NextSchema ==
    \/ UpdateServiceList
    \/ UpdateSchemaCall
    \/ UpdateSchemaBuild
    \/ Lock
    \/ Locked
    \/ WriteLocations
    \/ WriteIsBoundary
    \/ WriteMergedSchema
    \/ WriteBoundaryQueries
    \/ Unlock
    \/ RLock
    \/ ReadMergedSchema
    \/ ReadPlanSchema
    \/ ReadLocations
    \/ ReadIsBoundary
    \/ ReadServices
    \/ Plan
    \/ ReadExecSchema
    \/ ReadBoundaryQueries
    \/ Return

SpecSchema == InitSchema /\ [][NextSchema]_vars

----------------------------------------------------------------------------
(* The budget of requests of one query.  ExecuteQuery hands                 *)
(* int32(s.MaxRequestsPerQuery) to newQueryExecution; the tasks of the      *)
(* execution dispatch their documents concurrently, each dispatch after one *)
(* atomic check and decrement of the shared budget.                         *)

\* the documents one task has to dispatch
MaxDocuments == 2

Tasks == {"t1", "t2"}

\* an int64 in two's complement, as its high 32 bits and its low 32 bits, both
\* read as signed 32 bit integers: the value is hi * 2^32 + (lo mod 2^32)
Int64(hi, lo) == [hi |-> hi, lo |-> lo]

\* int32(x) for an int64 x keeps the low 32 bits
ToInt32(x) == x.lo

\* x > 0
Positive64(x) == x.hi > 0 \/ (x.hi = 0 /\ x.lo # 0)

\* n <= x, for an n of 0 .. 2^31 - 1
AtMost64(n, x) == x.hi > 0 \/ (x.hi = 0 /\ (x.lo < 0 \/ n <= x.lo))

\* settings of MaxRequestsPerQuery: 1, 2, 3, 0, -1, 2^32 - 1, 2^32, 2^32 + 1
MaxRequestsSettings ==
    {Int64(0, 1), Int64(0, 2), Int64(0, 3), Int64(0, 0), Int64(-1, -1),
     Int64(0, -1), Int64(1, 0), Int64(1, 1)}

InitBudget ==
    /\ queryExecution \in
         {[set |-> TRUE, MaxRequestsPerQuery |-> x, started |-> FALSE, maxRequest |-> 0,
           budget |-> 0, documents |-> d, dispatched |-> 0, errors |-> 0] :
             x \in MaxRequestsSettings, d \in [Tasks -> 0..MaxDocuments]}
    /\ pc = "budget"
    /\ results = <<>>
    /\ ids = NoIDs
    /\ merged = NoMerge
    /\ response = NoResponse
    /\ docCall = NoCall
    /\ documents = NoDocuments
    /\ bubbleCall = NoCall
    /\ bubbled = NoRuns
    /\ executableSchema = NoSchema
    /\ goroutines = NoGoroutines
    /\ skipCall = NoCall
    /\ rewritten = NoOperation

BudgetFrame ==
    /\ UNCHANGED mergeVars
    /\ UNCHANGED docVars
    /\ UNCHANGED bubbleVars
    /\ UNCHANGED schemaVars
    /\ UNCHANGED skipVars

\* line 1540: newQueryExecution(..., int32(s.MaxRequestsPerQuery))
newQueryExecution ==
    /\ pc = "budget"
    /\ ~queryExecution.started
    /\ queryExecution' = [queryExecution EXCEPT
                             !.started = TRUE,
                             !.maxRequest = ToInt32(queryExecution.MaxRequestsPerQuery),
                             !.budget = ToInt32(queryExecution.MaxRequestsPerQuery)]
    /\ BudgetFrame

\* a budget of 0 or less disables the limit
Limited == queryExecution.maxRequest > 0

\* a task dispatches its next document: the budget is checked and decremented
\* in one atomic step
Dispatch ==
    \E t \in Tasks :
        /\ pc = "budget"
        /\ queryExecution.started
        /\ queryExecution.documents[t] > 0
        /\ ~Limited \/ queryExecution.budget >= 1
        /\ queryExecution' = [queryExecution EXCEPT
                                 !.budget = IF Limited THEN @ - 1 ELSE @,
                                 !.dispatched = @ + 1,
                                 !.documents[t] = @ - 1]
        /\ BudgetFrame

\* the budget is used up: the dispatch is skipped, with the error "exceeded max
\* requests per query" for the subtree of the task
ExceededMaxRequests ==
    \E t \in Tasks :
        /\ pc = "budget"
        /\ queryExecution.started
        /\ queryExecution.documents[t] > 0
        /\ Limited /\ queryExecution.budget < 1
        /\ queryExecution' = [queryExecution EXCEPT
                                 !.errors = @ + 1,
                                 !.documents[t] = 0]
        /\ BudgetFrame

NextBudget ==
    \/ newQueryExecution
    \/ Dispatch
    \/ ExceededMaxRequests

SpecBudget == InitBudget /\ [][NextBudget]_vars

----------------------------------------------------------------------------
(* evaluateSkipAndInclude(vars, op): the copy of the operation with the     *)
(* selections guarded by @skip and @include resolved.  A selection set is   *)
(* nil or a list of selections; a selection is a field, an inline fragment  *)
(* or a fragment spread with its fragment definition.                      *)

\* the selections of a selection set of the operations checked
MaxSelections == 2

Literal(b) == [isVariable |-> FALSE, name |-> "", raw |-> b]

Variable(name) == [isVariable |-> TRUE, name |-> name, raw |-> FALSE]

\* a directive with its argument `if`
Directive(name, if) == [Name |-> name, If |-> if]

NoDirective == [Name |-> "", If |-> Literal(FALSE)]

NilSelectionSet == [isNil |-> TRUE, selections |-> <<>>]

SelectionSetOf(selections) == [isNil |-> FALSE, selections |-> selections]

DirectedField(name, directives, selectionSet) ==
    [kind |-> "Field", Name |-> name, Directives |-> directives, SelectionSet |-> selectionSet]

DirectedInlineFragment(typeCondition, directives, selectionSet) ==
    [kind |-> "InlineFragment", TypeCondition |-> typeCondition, Directives |-> directives,
     SelectionSet |-> selectionSet]

FragmentDefinition(name, directives, selectionSet) ==
    [Name |-> name, Directives |-> directives, SelectionSet |-> selectionSet]

DirectedFragmentSpread(name, directives, definition) ==
    [kind |-> "FragmentSpread", Name |-> name, Directives |-> directives,
     Definition |-> definition]

OperationDefinition(name, directives, selectionSet) ==
    [Name |-> name, Directives |-> directives, SelectionSet |-> selectionSet]

\* DirectiveList.ForName: the first directive of that name, or nil
ForName(directives, name) ==
    IF \E i \in DOMAIN directives : directives[i].Name = name
    THEN directives[CHOOSE i \in DOMAIN directives :
                        /\ directives[i].Name = name
                        /\ \A j \in 1..(i - 1) : directives[j].Name # name]
    ELSE NoDirective

\* resolveIfArgument: the value of the argument `if` under the variables
resolveIfArgument(d, variables) ==
    IF d.If.isVariable THEN variables[d.If.name] ELSE d.If.raw

\* removeSkipAndInclude removing `skip` only
removeSkipOnly(directives) ==
    SelectSeq(directives, LAMBDA d : d.Name # "skip")

removeSkipAndInclude(directives) ==
    SelectSeq(directives, LAMBDA d : ~(d.Name = "include" \/ d.Name = "skip"))

RECURSIVE evaluateSkipAndIncludeRec(_, _)
RECURSIVE EvaluateSelections(_, _, _)
\* lines 2139-2198: the loop over the selections from the k-th on
EvaluateSelections(variables, selections, k) ==
    IF k > Len(selections) THEN <<>>
    ELSE LET selection == selections[k]
             skipDirective == ForName(selection.Directives, "skip")
             includeDirective == ForName(selection.Directives, "include")
             skip == IF skipDirective # NoDirective
                     THEN resolveIfArgument(skipDirective, variables) ELSE FALSE
             include == IF includeDirective # NoDirective
                        THEN resolveIfArgument(includeDirective, variables) ELSE TRUE
             rest == EvaluateSelections(variables, selections, k + 1)
         IN  IF ~(~skip /\ include) THEN rest
             ELSE IF selection.kind = "Field"
             THEN <<DirectedField(selection.Name,
                                  removeSkipAndInclude(selection.Directives),
                                  evaluateSkipAndIncludeRec(variables, selection.SelectionSet))>>
                  \o rest
             ELSE IF selection.kind = "InlineFragment"
             THEN <<DirectedInlineFragment(selection.TypeCondition,
                                           removeSkipAndInclude(selection.Directives),
                                           evaluateSkipAndIncludeRec(variables, selection.SelectionSet))>>
                  \o rest
             ELSE <<DirectedFragmentSpread(selection.Name,
                        removeSkipAndInclude(selection.Directives),
                        FragmentDefinition(selection.Definition.Name,
                            removeSkipAndInclude(selection.Definition.Directives),
                            evaluateSkipAndIncludeRec(variables, selection.Definition.SelectionSet)))>>
                  \o rest

evaluateSkipAndIncludeRec(variables, selectionSet) ==
    IF selectionSet.isNil THEN NilSelectionSet
    ELSE SelectionSetOf(EvaluateSelections(variables, selectionSet.selections, 1))

evaluateSkipAndInclude(variables, op) ==
    OperationDefinition(op.Name, op.Directives,
                        evaluateSkipAndIncludeRec(variables, op.SelectionSet))

\* lists of directives of a selection: none, a guard on a literal or on the
\* variable $v, and guards between other directives
GuardLists ==
    {<<>>,
     <<Directive("skip", Variable("v"))>>,
     <<Directive("include", Variable("v"))>>,
     <<Directive("skip", Literal(TRUE))>>,
     <<Directive("a", Literal(TRUE)), Directive("include", Literal(TRUE)),
       Directive("b", Literal(TRUE)), Directive("skip", Literal(FALSE))>>}

FewGuardLists ==
    {<<>>, <<Directive("include", Variable("v")), Directive("a", Literal(TRUE))>>}

LeafFields == {DirectedField("x", d, NilSelectionSet) : d \in GuardLists}

InnerSelectionSets ==
    {SelectionSetOf(<<DirectedField("x", d, NilSelectionSet)>>) :
        d \in {<<>>, <<Directive("skip", Variable("v"))>>}}
    \cup {SelectionSetOf(<<DirectedField("y", <<>>, NilSelectionSet),
                           DirectedInlineFragment("T",
                               <<Directive("include", Variable("v"))>>,
                               SelectionSetOf(<<DirectedField("x",
                                   <<Directive("skip", Literal(FALSE))>>, NilSelectionSet)>>))>>),
          SelectionSetOf(<<>>)}

DirectedSelections ==
    LeafFields
    \cup {DirectedField("f", d, c) : d \in FewGuardLists, c \in InnerSelectionSets}
    \cup {DirectedInlineFragment("T", d, c) : d \in FewGuardLists, c \in InnerSelectionSets}
    \cup {DirectedFragmentSpread("F", d, FragmentDefinition("F", <<Directive("a", Literal(TRUE))>>, c)) :
            d \in FewGuardLists, c \in InnerSelectionSets}

\* the variables of the request and the cached operation
SkipCalls ==
    {[set |-> TRUE, vars |-> [name \in {"v"} |-> b],
      op |-> OperationDefinition("q", <<>>, SelectionSetOf(selections))] :
        b \in BOOLEAN, selections \in SeqsUpTo(DirectedSelections, MaxSelections)}

InitSkip ==
    /\ skipCall \in SkipCalls
    /\ rewritten = NoOperation
    /\ pc = "skip"
    /\ results = <<>>
    /\ ids = NoIDs
    /\ merged = NoMerge
    /\ response = NoResponse
    /\ docCall = NoCall
    /\ documents = NoDocuments
    /\ bubbleCall = NoCall
    /\ bubbled = NoRuns
    /\ executableSchema = NoSchema
    /\ goroutines = NoGoroutines
    /\ queryExecution = NoExecution

\* line 1512: op = s.evaluateSkipAndInclude(variables, op); the function
\* assigns to no part of the operation it is handed
EvaluateSkipAndInclude ==
    /\ pc = "skip"
    /\ rewritten = NoOperation
    /\ rewritten' = [set |-> TRUE, op |-> evaluateSkipAndInclude(skipCall.vars, skipCall.op)]
    /\ UNCHANGED skipCall
    /\ UNCHANGED mergeVars
    /\ UNCHANGED docVars
    /\ UNCHANGED bubbleVars
    /\ UNCHANGED schemaVars
    /\ UNCHANGED budgetVars

NextSkip == EvaluateSkipAndInclude

SpecSkip == InitSkip /\ [][NextSkip]_vars

----------------------------------------------------------------------------
(* Reading documents.  A document is read by finding the queries whose      *)
(* GraphQL text it is.                                                     *)

Built == documents.set

\* the text of a document that asks the query once, aliased `_result`, with
\* the list of IDs l as its `ids` argument
ArrayDocumentText(query, l) ==
    LET Items[n \in 0..Len(l)] ==
            IF n = 0 THEN ""
            ELSE Items[n - 1] \o (IF n = 1 THEN "" ELSE ", ") \o "\"" \o l[n] \o "\""
    IN  "{ _result: " \o query \o "(ids: [" \o Items[Len(l)] \o "]) { _id: id name } }"

\* the lists of IDs a document in array form passes
ArrayDocumentIDs(query, doc) ==
    {l \in SeqsUpTo(IDs, MaxIDs + 1) : ArrayDocumentText(query, l) = doc}

\* a selection of a document in singular form: the number of its alias and
\* the ID it asks for
AliasedSelections == (0..MaxIDs) \X IDs

\* the text of a document with the selections sels
SingularDocumentText(query, sels) ==
    LET Items[n \in 0..Len(sels)] ==
            IF n = 0 THEN ""
            ELSE Items[n - 1] \o (IF n = 1 THEN "" ELSE " ")
                     \o "_" \o ToString(sels[n][1]) \o ": " \o query
                     \o "(id: \"" \o sels[n][2] \o "\") { _id: id name }"
    IN  "{ " \o Items[Len(sels)] \o " }"

\* the documents of up to MaxBatchSize selections, each with its text
SingularDocuments ==
    {<<SingularDocumentText("getOwner", sels), sels>> :
        sels \in SeqsUpTo(AliasedSelections, MaxBatchSize)}

\* the lists of selections the document doc can be read as
SelectionsOf(doc) == {d[2] : d \in {e \in SingularDocuments : e[1] = doc}}

Readable(doc) == Cardinality(SelectionsOf(doc)) = 1

Selections(doc) == CHOOSE sels \in SelectionsOf(doc) : TRUE

\* the selections of all documents, in the order of the documents
RECURSIVE AllSelections(_)
AllSelections(docs) ==
    IF docs = <<>> THEN <<>> ELSE Selections(docs[1]) \o AllSelections(Tail(docs))

ArrayCall == docCall.parentTypeBoundaryField.Array

----------------------------------------------------------------------------
(* C12 *)

\* C12: for a boundary query in array form buildBoundaryQueryDocuments returns
\* exactly one document, for every list of IDs and every batch size; the
\* document aliases the boundary query as `_result` and passes all IDs, each
\* quoted, in the order of the input, in one `ids` argument.
C12_ArrayFormOneDocument ==
    (Built /\ ArrayCall) =>
        /\ Len(documents.docs) = 1
        /\ ArrayDocumentIDs(docCall.parentTypeBoundaryField.Query, documents.docs[1])
               = {docCall.ids}

\* three IDs, one of them twice, and a batch size of 1: one document
C12_Witness ==
    /\ Built
    /\ ArrayCall
    /\ docCall.batchSize = 1
    /\ docCall.ids = <<"2", "1", "2">>
    /\ documents.docs = <<"{ _result: getOwners(ids: [\"2\", \"1\", \"2\"]) { _id: id name } }">>

----------------------------------------------------------------------------
(* C13 *)

\* n / b rounded up
CeilDiv(n, b) == (n + b - 1) \div b

C13Case == Built /\ ~ArrayCall /\ Len(docCall.ids) >= 1

\* C13: for a boundary query in singular form, n >= 1 IDs and a batch size
\* B >= 1, buildBoundaryQueryDocuments returns one document for every chunk of
\* consecutive IDs: ceil(n/B) documents, each but the last with exactly B
\* selections, the last with 1 to B, and the IDs read across the documents in
\* order are the input list.
C13_SingularFormChunks ==
    C13Case =>
        LET docs == documents.docs
            B == docCall.batchSize
        IN  /\ Len(docs) = CeilDiv(Len(docCall.ids), B)
            /\ \A d \in DOMAIN docs : Readable(docs[d])
            /\ \A d \in 1..(Len(docs) - 1) : Len(Selections(docs[d])) = B
            /\ Len(Selections(docs[Len(docs)])) \in 1..B
            /\ [i \in DOMAIN AllSelections(docs) |-> AllSelections(docs)[i][2]] = docCall.ids

\* three IDs in batches of two: a full document and a shorter last one
C13_Witness ==
    /\ C13Case
    /\ Len(docCall.ids) = 3
    /\ docCall.batchSize = 2
    /\ Len(documents.docs) = 2
    /\ Len(Selections(documents.docs[1])) = 2
    /\ Len(Selections(documents.docs[2])) = 1

----------------------------------------------------------------------------
(* C14 *)

C14Case == Built /\ ~ArrayCall /\ \A d \in DOMAIN documents.docs : Readable(documents.docs[d])

\* C14: in singular form the counter of the aliases starts at 0 and is not set
\* back between chunks: across the documents of one call every alias `_i`
\* occurs exactly once, and the selection aliased `_i` asks for the ID at index
\* i of the input list.
C14_AliasesRunAcrossChunks ==
    C14Case =>
        LET sels == AllSelections(documents.docs)
        IN  /\ \A i, j \in DOMAIN sels : sels[i][1] = sels[j][1] => i = j
            /\ Len(sels) = Len(docCall.ids)
            /\ \A i \in DOMAIN sels :
                 /\ sels[i][1] \in 0..(Len(docCall.ids) - 1)
                 /\ sels[i][2] = docCall.ids[sels[i][1] + 1]
            /\ Len(sels) > 0 => sels[1][1] = 0

\* the second document of a call starts with the alias after the last alias
\* of the first
C14_Witness ==
    /\ C14Case
    /\ docCall.ids = <<"1", "2", "1">>
    /\ Len(documents.docs) = 2
    /\ Selections(documents.docs[1]) = <<<<0, "1">>, <<1, "2">>>>
    /\ Selections(documents.docs[2]) = <<<<2, "1">>>>

----------------------------------------------------------------------------
(* What the walk for nulls is to do, read off the selection set and the     *)
(* tree: the fields of an object are the selected fields, those of a        *)
(* fragment counting when the type condition holds for the object.          *)

\* the tree and the selection set of the walk, and its runs
Tree == bubbleCall.result

SelectionSet == bubbleCall.selectionSet

Walk1 == bubbled[1]

HasRun == Len(bubbled) >= 1

\* the run failed for another reason than a null that bubbled up to the root
Fatal(run) == run.err \notin {NoError, ErrNullBubbledToRoot}

TypeConditionHolds(typeCondition, object) ==
    /\ "__typename" \in DOMAIN object.m
    /\ IsStr(object.m["__typename"])
    /\ \/ object.m["__typename"].s = typeCondition
       \/ Implements(object.m["__typename"].s, typeCondition)

\* the fields selected for the object, fragments expanded
RECURSIVE SelectedFields(_, _)
SelectedFields(selectionSet, object) ==
    IF selectionSet = <<>> THEN <<>>
    ELSE LET selection == Head(selectionSet)
             rest == SelectedFields(Tail(selectionSet), object)
         IN  IF selection.kind = "Field" THEN <<selection>> \o rest
             ELSE IF TypeConditionHolds(selection.TypeCondition, object)
             THEN SelectedFields(selection.SelectionSet, object) \o rest
             ELSE rest

\* the alias paths of the selected fields of non-null type that are null
RECURSIVE Violations(_, _, _)
Violations(selectionSet, value, path) ==
    IF IsList(value)
    THEN UNION {Violations(selectionSet, value.l[i], Append(path, PathIndex(i - 1))) :
                    i \in DOMAIN value.l}
    ELSE IF ~IsMap(value) THEN {}
    ELSE LET fields == SelectedFields(selectionSet, value)
             Of(field) ==
                 LET v == FieldValue(value, field.Alias)
                     p == Append(path, PathName(field.Alias))
                 IN  IF v = Nil THEN (IF field.Type.NonNull THEN {p} ELSE {})
                     ELSE IF field.hasSelectionSet THEN Violations(field.SelectionSet, v, p)
                     ELSE {}
         IN  UNION {Of(fields[k]) : k \in DOMAIN fields}

\* the value after the bubbling, and whether the bubble leaves the value
RECURSIVE Bubbling(_, _, _)
Bubbling(selectionSet, type, value) ==
    IF IsList(value)
    THEN LET Of(i) ==
                 IF value.l[i] = Nil
                 THEN [bubble |-> type.Elem.NonNull, value |-> Nil]
                 ELSE LET lower == Bubbling(selectionSet, type, value.l[i])
                      IN  IF lower.bubble
                          THEN [bubble |-> type.Elem.NonNull, value |-> Nil]
                          ELSE lower
         IN  [bubble |-> \E i \in DOMAIN value.l : Of(i).bubble,
              value |-> List([i \in DOMAIN value.l |-> Of(i).value])]
    ELSE LET fields == SelectedFields(selectionSet, value)
             Of(field) ==
                 LET v == FieldValue(value, field.Alias)
                 IN  IF v = Nil THEN [bubble |-> field.Type.NonNull, value |-> Nil]
                     ELSE IF ~field.hasSelectionSet THEN [bubble |-> FALSE, value |-> v]
                     ELSE LET lower == Bubbling(field.SelectionSet, field.Type, v)
                          IN  IF lower.bubble
                              THEN [bubble |-> field.Type.NonNull, value |-> Nil]
                              ELSE lower
             Selected(alias) == {k \in DOMAIN fields : fields[k].Alias = alias}
         IN  [bubble |-> \E k \in DOMAIN fields : Of(fields[k]).bubble,
              value |-> Map([alias \in DOMAIN value.m |->
                              IF Selected(alias) = {} THEN value.m[alias]
                              ELSE Of(fields[CHOOSE k \in Selected(alias) : TRUE]).value])]

Bubbled == Bubbling(SelectionSet, NilType, Map(Tree))

----------------------------------------------------------------------------
(* C15 *)

C15Case == HasRun /\ Violations(SelectionSet, Map(Tree), <<>>) # {}

\* C15: for every selected field, leaf or composite, of non-null type whose
\* value in the merged tree is null, bubbleUpNullValuesInPlace records one error
\* with the message "field failed to resolve" and the alias path of the field
\* from the root, and signals a bubble to the enclosing position (the walk does
\* not fail, and the errors it returns unless the null bubbles up to the root
\* are these).
C15_ErrorForEveryNonNullNull ==
    C15Case =>
        /\ ~Fatal(Walk1)
        /\ Walk1.err = ErrNullBubbledToRoot \/ Walk1.result # Tree
        /\ Walk1.err = NoError =>
             /\ \A p \in Violations(SelectionSet, Map(Tree), <<>>) :
                  Cardinality({e \in DOMAIN Walk1.errs : Walk1.errs[e].Path = p}) = 1
             /\ \A e \in DOMAIN Walk1.errs :
                  /\ Walk1.errs[e].Message = "field failed to resolve"
                  /\ Walk1.errs[e].Path \in Violations(SelectionSet, Map(Tree), <<>>)

----------------------------------------------------------------------------
(* C16 *)

C16Case == HasRun /\ Violations(SelectionSet, Map(Tree), <<>>) # {}

\* C16: a bubble stops at the nearest enclosing nullable position: a field of
\* non-null type passes the bubble of its child up and a field of nullable type
\* is set to null; a list with elements of non-null type passes the bubble of
\* an element up as a whole and a list with nullable elements gets null at that
\* index; every part of the tree outside the position set to null keeps its
\* value.
C16_BubbleStopsAtNullablePosition ==
    C16Case =>
        /\ ~Fatal(Walk1)
        /\ Bubbled.bubble => Walk1.err = ErrNullBubbledToRoot
        /\ ~Bubbled.bubble => (Walk1.err = NoError /\ Walk1.result = Bubbled.value.m)

----------------------------------------------------------------------------
(* C17 *)

Responded == pc = "responded" /\ response.set

C17Case == bubbleCall.set /\ Bubbled.bubble

\* C17: when a null bubbles up to the root, bubbleUpNullValuesInPlace reports
\* ErrNullBubbledToRoot, and the response of the query then has `data` null and
\* at least one error.
C17_NullBubbledToRoot ==
    C17Case =>
        /\ HasRun => Walk1.err = ErrNullBubbledToRoot
        /\ Responded =>
             /\ ~response.hasData \/ response.Data = Nil
             /\ Len(response.Errors) >= 1

----------------------------------------------------------------------------
(* C18 *)

RECURSIVE HasFragment(_)
HasFragment(selectionSet) ==
    \E k \in DOMAIN selectionSet :
        \/ selectionSet[k].kind # "Field"
        \/ selectionSet[k].hasSelectionSet /\ HasFragment(selectionSet[k].SelectionSet)

C18Case == HasRun /\ HasFragment(SelectionSet)

\* C18: bubbleUpNullValuesInPlace descends into fragment spreads and into inline
\* fragments without failing, and applies the selections of a fragment on type
\* T to an object only when the `__typename` of the object is T or T is an
\* interface the object implements: a field of non-null type selected only in a
\* fragment on another object type is never reported for that object.
C18_FragmentsHonorTypeCondition ==
    C18Case =>
        /\ ~Fatal(Walk1)
        /\ \A e \in DOMAIN Walk1.errs :
             Walk1.errs[e].Path \in Violations(SelectionSet, Map(Tree), <<>>)
        /\ Violations(SelectionSet, Map(Tree), <<>>) = {} =>
             (Walk1.err = NoError /\ Walk1.result = Tree)

----------------------------------------------------------------------------
(* C19 *)

C19Case == Len(bubbled) = 2

\* C19: bubbling is idempotent: a second run of bubbleUpNullValuesInPlace with
\* the same selection set on a tree that has been bubbled, and did not bubble up
\* to the root, succeeds and leaves the tree unchanged, also when the first run
\* wrote null into a nullable field or into an index of a list.
C19_BubblingIdempotent ==
    C19Case =>
        /\ bubbled[2].err = NoError
        /\ bubbled[2].result = bubbled[1].result

----------------------------------------------------------------------------
(* C20 *)

C20Case == HasRun /\ Violations(SelectionSet, Map(Tree), <<>>) = {}

\* C20: on a merged tree in which no selected field of non-null type is null
\* (fields of nullable type, scalar or composite, may be null),
\* bubbleUpNullValuesInPlace returns no failure and an empty list of errors and
\* leaves the tree as it was.
C20_NoViolationNoChange ==
    C20Case =>
        /\ Walk1.err = NoError
        /\ Walk1.errs = <<>>
        /\ Walk1.result = Tree

----------------------------------------------------------------------------
(* C21 *)

C21Case ==
    /\ bubbleCall.set
    /\ Responded
    /\ Violations(SelectionSet, Map(Tree), <<>>) # {}
    /\ ~Bubbled.bubble

\* C21: for every query whose merged tree holds a null at a position of
\* non-null type that bubbles only to a nullable ancestor, the response of
\* ExecuteQuery has partial data (the tree with that ancestor set to null) and
\* at least one error whose path is the alias path of the violating field.
C21_PartialDataAndErrorAtPath ==
    C21Case =>
        /\ response.hasData
        /\ response.Data = Bubbled.value
        /\ \E e \in DOMAIN response.Errors :
             response.Errors[e].Path \in Violations(SelectionSet, Map(Tree), <<>>)

----------------------------------------------------------------------------
(* C27 *)

\* the selection set selects fragments by spreads only
RECURSIVE OnlySpreads(_)
OnlySpreads(selectionSet) ==
    \A k \in DOMAIN selectionSet :
        /\ selectionSet[k].kind \in {"Field", "FragmentSpread"}
        /\ selectionSet[k].kind = "FragmentSpread" => OnlySpreads(selectionSet[k].SelectionSet)
        /\ (selectionSet[k].kind = "Field" /\ selectionSet[k].hasSelectionSet) =>
               OnlySpreads(selectionSet[k].SelectionSet)

\* the objects of the list under the root field that have a null in a
\* selected field of non-null type
ViolatingElements ==
    LET root == SelectionSet[1]
        list == FieldValue(Map(Tree), root.Alias)
    IN  IF ~IsList(list) THEN {}
        ELSE {i \in DOMAIN list.l :
                 Violations(root.SelectionSet, list.l[i], <<>>) # {}}

C27Case ==
    /\ HasRun
    /\ HasFragment(SelectionSet)
    /\ OnlySpreads(SelectionSet)
    /\ ViolatingElements # {}

\* C27: a bubble signalled inside an object is never lost: if a field of
\* non-null type selected for an object, directly or through a fragment
\* spread, is null, the walk of the object signals a bubble to its parent
\* (which sets the object to null or passes the bubble up to the root),
\* wherever the fragment spreads stand in the selection set.
C27_BubbleNeverLost ==
    C27Case =>
        \/ Walk1.err = ErrNullBubbledToRoot
        \/ /\ Walk1.err = NoError
           /\ \A i \in ViolatingElements :
                FieldValue(Map(Walk1.result), SelectionSet[1].Alias).l[i] = Nil

----------------------------------------------------------------------------
(* C28 *)

ErrorPaths(run) == {run.errs[e].Path : e \in DOMAIN run.errs}

C28Case ==
    /\ HasRun
    /\ Walk1.err = NoError
    /\ ~HasFragment(SelectionSet)
    /\ Cardinality(Violations(SelectionSet, Map(Tree), <<>>)) >= 2

\* C28: the path stored in an error recorded by bubbleUpNullValuesInPlaceRec
\* is not changed by the rest of the walk: when the walk returns, the paths of
\* the errors are the alias paths of the fields that raised them, one error
\* for each, also when several fields of non-null type of one object are null.
C28_ErrorPathsKept ==
    C28Case =>
        /\ ErrorPaths(Walk1) = Violations(SelectionSet, Map(Tree), <<>>)
        /\ Len(Walk1.errs) = Cardinality(Violations(SelectionSet, Map(Tree), <<>>))

----------------------------------------------------------------------------
(* C25 *)

\* the value at the end of the path when the path leads through objects only
RECURSIVE TerminalValue(_, _)
TerminalValue(v, path) ==
    IF path = <<>> THEN v
    ELSE IF IsMap(v) /\ Head(path) \in DOMAIN v.m
    THEN TerminalValue(v.m[Head(path)], Tail(path))
    ELSE Nil

TerminalList == TerminalValue(Map(Base), ids.insertionPoint)

\* the value at the end of the insertion point is a list of boundary objects
C25Case ==
    /\ ids.set
    /\ IsList(TerminalList)
    /\ TerminalList.l # <<>>
    /\ \A i \in DOMAIN TerminalList.l :
         /\ IsMap(TerminalList.l[i])
         /\ "_id" \in DOMAIN TerminalList.l[i].m
         /\ IsStr(TerminalList.l[i].m["_id"])

\* C25: when the value at the end of the insertion point is itself a list of
\* boundary objects, extractBoundaryIDs iterates the elements of the list and
\* returns the ID of every element, in the order of the list, without error.
C25_TerminalListByElement ==
    C25Case =>
        /\ ids.result.ok
        /\ ids.result.val = [i \in DOMAIN TerminalList.l |-> TerminalList.l[i].m["_id"].s]

----------------------------------------------------------------------------
(* C30 *)

C30Case == Built /\ ~ArrayCall

\* C30: every document buildBoundaryQueryDocuments returns in singular form
\* holds at least one aliased selection, for every list of IDs, the empty one
\* included, and every batch size B >= 1: an empty list of IDs gives no
\* document rather than a document with an empty selection set.
C30_NoEmptyDocument ==
    C30Case =>
        /\ \A d \in DOMAIN documents.docs :
             /\ Readable(documents.docs[d])
             /\ Len(Selections(documents.docs[d])) >= 1
        /\ docCall.ids = <<>> => documents.docs = <<>>

----------------------------------------------------------------------------
(* C26 *)

\* the aliases of the data are `_k`, `_(k+1)`, ... for some k, each with an
\* object
IsBatchForm(data) ==
    /\ DOMAIN data # {}
    /\ \E k \in 0..(MaxLen + 1) :
         DOMAIN data = {nodeAlias(k + i) : i \in 0..(Cardinality(DOMAIN data) - 1)}
    /\ \A a \in DOMAIN data : IsMap(data[a])

\* a list of base objects with `_id` and the result of one batch of a boundary
\* query in singular form, every entry with `_id`
C26Case ==
    /\ Merged
    /\ Len(results) = 2
    /\ results[1].InsertionPoint = <<>>
    /\ Child.InsertionPoint = <<"gizmos", "owner">>
    /\ DOMAIN Base = {"gizmos"}
    /\ IsList(Base["gizmos"])
    /\ \A i \in DOMAIN Base["gizmos"].l :
         /\ IsMap(Base["gizmos"].l[i])
         /\ "owner" \in DOMAIN Base["gizmos"].l[i].m
         /\ HasID(Base["gizmos"].l[i].m["owner"])
    /\ IsBatchForm(Child.Data)
    /\ \A a \in DOMAIN Child.Data : HasID(Child.Data[a])

\* C26: when the IDs of a boundary query in singular form were split into
\* several batch documents, the result of every batch, also of a later batch
\* whose aliases start at `_k` with k > 0 and of a batch shorter than the
\* others, is merged into the base list by boundary ID without error.
C26_EveryBatchMerges ==
    C26Case =>
        /\ merged.result.ok
        /\ \A i \in DOMAIN Base["gizmos"].l :
             LET old == Base["gizmos"].l[i]
                 new == merged.result.val["gizmos"].l[i]
             IN  Received(old.m["owner"], new.m["owner"],
                          {Child.Data[a] : a \in {b \in DOMAIN Child.Data :
                               Child.Data[b].m["_id"] = old.m["owner"].m["_id"]}})

----------------------------------------------------------------------------
(* C22 *)

\* the reads of the merged schema and of the three maps built with it
SnapshotReads == {"MergedSchema", "Schema", "Locations", "IsBoundary", "ExecSchema", "BoundaryQueries"}

Seen(q) == goroutines.query[q].seen

\* the query is between its RLock and its return
Running(q) == goroutines.query[q].pc \notin {"start", "returned"}

\* C22: a running ExecuteQuery reads MergedSchema, Locations, IsBoundary and
\* BoundaryQueries from one and the same refresh: UpdateSchema replaces the four
\* while it holds the writer lock, ExecuteQuery holds the reader lock from
\* before its first read of them until it returns, and no query sees some of
\* the four from before a refresh and others from after it.
C22_ConsistentSnapshot ==
    goroutines.set =>
        /\ \A q \in Queries : \A f, g \in SnapshotReads :
             (Seen(q)[f] # NotRead /\ Seen(q)[g] # NotRead) => Seen(q)[f] = Seen(q)[g]
        /\ \A q \in Queries :
             Running(q) => (executableSchema.mutex.readers >= 1
                            /\ executableSchema.mutex.writer # "held")
        /\ (\E f, g \in {"MergedSchema", "Locations", "IsBoundary", "BoundaryQueries"} :
                executableSchema[f] # executableSchema[g])
             => executableSchema.mutex.writer = "held"

\* one query has returned with the four of the first schema and the other with
\* the four of a refresh that waited for the first query
C22_Witness ==
    /\ goroutines.set
    /\ goroutines.query["q1"].pc = "returned"
    /\ goroutines.query["q2"].pc = "returned"
    /\ \A f \in SnapshotReads : Seen("q1")[f] = 0
    /\ \A f \in SnapshotReads : Seen("q2")[f] = 1

----------------------------------------------------------------------------
(* C29 *)

SchemaFields == {"Services", "MergedSchema", "Locations", "IsBoundary", "BoundaryQueries"}

\* C29: every write to the state of ExecutableSchema that a running
\* ExecuteQuery reads (Services, MergedSchema, Locations, IsBoundary,
\* BoundaryQueries) is made while the writer lock is held; UpdateServiceList
\* never replaces Services while a query that holds the reader lock is planning
\* with it.
C29_WritesUnderWriterLock ==
    [][goroutines.set =>
         \A f \in SchemaFields :
             executableSchema'[f] # executableSchema[f] =>
                 /\ executableSchema.mutex.writer = "held"
                 /\ \A q \in Queries : ~Running(q)]_vars

----------------------------------------------------------------------------
(* C24 *)

C24Case ==
    /\ queryExecution.set
    /\ queryExecution.started
    /\ Positive64(queryExecution.MaxRequestsPerQuery)

----------------------------------------------------------------------------
(* C23 *)

\* the @skip guard of the selection is true, its @include guard is false
SkipIsTrue(selection, variables) ==
    \E i \in DOMAIN selection.Directives :
        /\ selection.Directives[i].Name = "skip"
        /\ resolveIfArgument(selection.Directives[i], variables)

IncludeIsFalse(selection, variables) ==
    \E i \in DOMAIN selection.Directives :
        /\ selection.Directives[i].Name = "include"
        /\ ~resolveIfArgument(selection.Directives[i], variables)

\* the selections of the list that are to be kept, in order
KeptSelections(selections, variables) ==
    SelectSeq(selections, LAMBDA sel : ~SkipIsTrue(sel, variables) /\ ~IncludeIsFalse(sel, variables))

\* directives is the list others without its guards, in order
IsWithoutGuards(directives, others) ==
    /\ \A i \in DOMAIN directives : directives[i].Name \notin {"skip", "include"}
    /\ directives = SelectSeq(others, LAMBDA d : d.Name \notin {"skip", "include"})

\* the selection set out is the selection set in with the guards resolved, at
\* every depth
RECURSIVE IsResolved(_, _, _)
IsResolved(in, out, variables) ==
    IF in.isNil THEN out.isNil
    ELSE /\ ~out.isNil
         /\ LET kept == KeptSelections(in.selections, variables)
            IN  /\ Len(out.selections) = Len(kept)
                /\ \A i \in DOMAIN kept :
                     LET a == kept[i]
                         b == out.selections[i]
                     IN  /\ b.kind = a.kind
                         /\ IsWithoutGuards(b.Directives, a.Directives)
                         /\ IF a.kind = "FragmentSpread"
                            THEN /\ b.Name = a.Name
                                 /\ b.Definition.Name = a.Definition.Name
                                 /\ IsWithoutGuards(b.Definition.Directives,
                                                    a.Definition.Directives)
                                 /\ IsResolved(a.Definition.SelectionSet,
                                               b.Definition.SelectionSet, variables)
                            ELSE /\ (a.kind = "Field" => b.Name = a.Name)
                                 /\ IsResolved(a.SelectionSet, b.SelectionSet, variables)

C23Case == skipCall.set /\ rewritten.set

====
